---- MODULE Spec2Model ----
(***************************************************************************)
(* The background job queue of Invoice AI (backend/fastapi/job_queue.py):  *)
(* JobQueue with its worker loops, the retry state machine of process_job  *)
(* and the persistence of every transition to the job_queue table.         *)
(*                                                                         *)
(* The queue is asyncio code: every method is a coroutine running on one   *)
(* event loop, so a coroutine runs without interleaving until it reaches   *)
(* a real suspension point.  The only suspension points of the queue are   *)
(* the two asyncio.sleep calls (poll interval, line 315; backoff, line     *)
(* 230): the handlers and the supabase calls contain no await of their own.*)
(* `holder` is the task that currently runs on the event loop.             *)
(***************************************************************************)
EXTENDS Integers, Sequences, FiniteSets, TLC

\* ---------------------------------------------------------------- bounds
MaxJobs == 2
MaxClock == 1

\* ------------------------------------------------------------- constants
\* JobStatus
PENDING == "pending"
PROCESSING == "processing"
COMPLETED == "completed"
FAILED == "failed"
RETRYING == "retrying"
CANCELLED == "cancelled"

JobStatus == {PENDING, PROCESSING, COMPLETED, FAILED, RETRYING, CANCELLED}

\* JobPriority
LOW == "low"
NORMAL == "normal"
HIGH == "high"
CRITICAL == "critical"

JobPriority == {LOW, NORMAL, HIGH, CRITICAL}

\* Python's None, for the Optional[str] / Optional[Dict] fields of Job.
None == "None"

\* A timestamp field that holds None (timestamps are clock readings >= 0).
NoTime == -1

\* get_next_job's "no job" result (job ids are 1..Len(jobs)).
NoJob == 0

\* The event loop is idle: every task is suspended or finished.
NoOne == "none"

\* The worker tasks (start_worker coroutines) on the event loop.
Workers == {"w1", "w2"}

\* Inputs of add_job.
JobTypes == {"process_invoice", "bogus"}
RetryChoices == {0, 1, 2}

\* Texts str(e) of the exceptions a failing handler raises; the empty text is
\* the str() of an exception raised without arguments.
ErrTexts == {"E1", ""}

\* Whether a call of the job_queue table goes through (TRUE) or raises (FALSE).
\* The queue never reads the table back, so the table's outcome has no effect
\* on the jobs in memory.
DbOutcomes == {TRUE}

VARIABLES
    jobs,       \* self.jobs: the insertion-ordered dict, as a sequence; id = position
    store,      \* the job_queue table: id -> row (NoRow when no row exists)
    supabase,   \* self.supabase is set (main.py builds the queue with its client)
    running,    \* self.running
    pc,         \* where each worker task stands
    wjob,       \* the job a worker is executing in process_job, or NoJob
    holder,     \* the task running on the event loop, or NoOne
    now,        \* datetime.utcnow(), in clock ticks
    hist,       \* history per job: handler calls, writes of the timestamps, cancellation while Pending
    wake,       \* per worker: when its asyncio.sleep began and when it is due
    ret,        \* the outcome of the last get_job / update_job_status / stop_worker call of a caller
    pipe,       \* the InvoiceProcessor and its current process_invoice run (invoice_processor.py)
    ledger      \* per job: what _process_invoice_job did in the job's latest attempt, and its calls so far

vars == <<jobs, store, supabase, running, pc, wjob, holder, now, hist, wake, ret, pipe, ledger>>

Ids == 1..Len(jobs)

\* ------------------------------------------------------- pure functions
\* Python truthiness of an Optional[str] / Optional[Dict] value.
Truthy(x) == x # None /\ x # "" /\ x # "{}"

\* priority_order.get(j.priority, 999)
PriorityOrder(p) ==
    CASE p = CRITICAL -> 0
      [] p = HIGH -> 1
      [] p = NORMAL -> 2
      [] p = LOW -> 3
      [] OTHER -> 999

\* KeyLess with the priority left out of the sort key.
KeyLessByAge(a, b) == a.created_at < b.created_at

\* KeyLess with the creation time compared newest first.
KeyLessNewestFirst(a, b) ==
    \/ PriorityOrder(a.priority) < PriorityOrder(b.priority)
    \/ /\ PriorityOrder(a.priority) = PriorityOrder(b.priority)
       /\ a.created_at > b.created_at

\* The comparison of two sort keys (priority_order, created_at), as tuples.
KeyLess(a, b) ==
    \/ PriorityOrder(a.priority) < PriorityOrder(b.priority)
    \/ /\ PriorityOrder(a.priority) = PriorityOrder(b.priority)
       /\ a.created_at < b.created_at

\* IsSelectable that also takes the jobs waiting out their backoff.
IsSelectableOrRetrying(job) == job.status \in {PENDING, RETRYING}

\* IsSelectable that only leaves out the jobs in work or done.
IsSelectableNotDone(job) == job.status \notin {PROCESSING, RETRYING, COMPLETED, FAILED}

\* IsSelectable that passes over the jobs below High.
IsSelectableUrgentOnly(job) == job.status = PENDING /\ job.priority \in {CRITICAL, HIGH}

\* The filter of the list comprehension.
IsSelectable(job) == job.status = PENDING

\* pending_jobs: the ids of the selectable jobs, in dict (insertion) order.
RECURSIVE PendingFrom(_, _)
PendingFrom(js, i) ==
    IF i > Len(js) THEN <<>>
    ELSE (IF IsSelectable(js[i]) THEN <<i>> ELSE <<>>) \o PendingFrom(js, i + 1)

PendingJobs(js) == PendingFrom(js, 1)

\* One insertion of the stable sort: x goes behind every element that is not
\* greater than it.
RECURSIVE InsertSorted(_, _, _)
InsertSorted(js, x, s) ==
    IF s = <<>> THEN <<x>>
    ELSE IF KeyLess(js[x], js[Head(s)]) THEN <<x>> \o s
    ELSE <<Head(s)>> \o InsertSorted(js, x, Tail(s))

\* sorted(pending_jobs, key=...): Python's sort is stable.
RECURSIVE SortedJobs(_, _)
SortedJobs(js, p) ==
    IF p = <<>> THEN <<>>
    ELSE InsertSorted(js, p[Len(p)], SortedJobs(js, SubSeq(p, 1, Len(p) - 1)))

GetNextJob(js) ==
    LET pending_jobs == PendingJobs(js)
    IN  IF pending_jobs = <<>> THEN NoJob
        ELSE Head(SortedJobs(js, pending_jobs))

\* The payload a caller hands to add_job: the queue only passes it on.
Payload == "payload"

\* Job(id, type, payload, priority, max_retries) with the dataclass defaults
\* and __post_init__'s created_at.
NewJob(job_type, priority, max_retries, t) ==
    [type |-> job_type, payload |-> Payload, status |-> PENDING, priority |-> priority,
     attempts |-> 0, max_retries |-> max_retries, error_message |-> None, result |-> None,
     created_at |-> t, started_at |-> NoTime, completed_at |-> NoTime]

\* update_job_status writes started_at (line 139).
WritesStartedAt(job, status) == status = PROCESSING /\ job.started_at = NoTime

\* update_job_status writes completed_at (line 141).
WritesCompletedAt(job, status) ==
    ~WritesStartedAt(job, status) /\ status \in {COMPLETED, FAILED, CANCELLED}

\* An update that also stamps the job anew.
UpdatedJobRestamped(job, status, error_message, result, t) ==
    [job EXCEPT !.status = status, !.created_at = t,
                !.error_message = IF Truthy(error_message) THEN error_message ELSE @,
                !.result = IF Truthy(result) THEN result ELSE @,
                !.started_at = IF WritesStartedAt(job, status) THEN t ELSE @,
                !.completed_at = IF WritesCompletedAt(job, status) THEN t ELSE @]

\* An update that stamps a job anew when it goes back to Pending.
UpdatedJobRequeued(job, status, error_message, result, t) ==
    LET j1 == [job EXCEPT !.status = status,
                          !.created_at = IF status = PENDING THEN t ELSE @]
        j2 == IF Truthy(error_message) THEN [j1 EXCEPT !.error_message = error_message] ELSE j1
        j3 == IF Truthy(result) THEN [j2 EXCEPT !.result = result] ELSE j2
    IN  IF WritesStartedAt(job, status) THEN [j3 EXCEPT !.started_at = t]
        ELSE IF WritesCompletedAt(job, status) THEN [j3 EXCEPT !.completed_at = t]
        ELSE j3

\* The in-memory half of update_job_status (lines 133-142).
UpdatedJob(job, status, error_message, result, t) ==
    LET j1 == [job EXCEPT !.status = status]
        j2 == IF Truthy(error_message) THEN [j1 EXCEPT !.error_message = error_message] ELSE j1
        j3 == IF Truthy(result) THEN [j2 EXCEPT !.result = result] ELSE j2
    IN  IF WritesStartedAt(job, status) THEN [j3 EXCEPT !.started_at = t]
        ELSE IF WritesCompletedAt(job, status) THEN [j3 EXCEPT !.completed_at = t]
        ELSE j3

\* The table holds no row for a job id (its insert raised, or no table is configured).
NoRow ==
    [present |-> FALSE, status |-> None, error_message |-> None, result |-> None,
     started_at |-> NoTime, completed_at |-> NoTime]

\* The row written by add_job's insert (lines 105-113).
InsertedRow(job) ==
    [present |-> TRUE, status |-> job.status, error_message |-> None, result |-> None,
     started_at |-> NoTime, completed_at |-> NoTime]

\* json.dumps of a result mapping: the table holds its text.
JsonDumps(x) == "json:" \o x

\* update_data of update_job_status (lines 147-153), applied to the row with
\* that id; an update of a row that does not exist changes nothing.
UpdatedRow(row, job, status, error_message, result) ==
    IF ~row.present THEN row
    ELSE [present |-> TRUE, status |-> status, error_message |-> error_message,
          result |-> IF Truthy(result) THEN JsonDumps(result) ELSE None,
          started_at |-> job.started_at, completed_at |-> job.completed_at]

\* What the dispatch of process_job (lines 206-215) can produce for a job type:
\* the handler's result, or the text of the exception it raised.
HandlerOutcomes(job_type) ==
    CASE job_type = "process_invoice" ->
            {[ok |-> TRUE, value |-> "invoice_result"]}
                \cup {[ok |-> FALSE, value |-> e] : e \in ErrTexts}
      [] job_type = "email_ingestion" ->
            {[ok |-> TRUE, value |-> "email_result"]}
                \cup {[ok |-> FALSE, value |-> e] : e \in ErrTexts}
      [] job_type = "generate_report" -> {[ok |-> TRUE, value |-> "report_result"]}
      [] job_type = "export_data" -> {[ok |-> TRUE, value |-> "export_result"]}
      [] OTHER -> {[ok |-> FALSE, value |-> "Unknown job type"]}

AllOutcomes ==
    UNION {HandlerOutcomes(t) :
            t \in {"process_invoice", "email_ingestion", "generate_report", "export_data", "bogus"}}

\* The dispatch reaches a handler (the else branch raises without calling one).
HasHandler(job_type) ==
    job_type \in {"process_invoice", "email_ingestion", "generate_report", "export_data"}

\* A retry test that grants one attempt too many.
ShouldRetryOnceMore(job) == job.attempts < job.max_retries + 2

\* The retry test of process_job (line 226).
ShouldRetry(job) == job.attempts < job.max_retries

\* ------------------------------------------ the extraction pipeline: texts
\* A text is a sequence of characters: "x" stands for any character that is
\* no whitespace, " " and NL are whitespace.
NL == "NL"

IsSpace(c) == c \in {" ", NL}

Rep(c, n) == [i \in 1..n |-> c]

RECURSIVE LStrip(_)
LStrip(t) == IF t = <<>> \/ ~IsSpace(Head(t)) THEN t ELSE LStrip(Tail(t))

RECURSIVE RStrip(_)
RStrip(t) == IF t = <<>> \/ ~IsSpace(t[Len(t)]) THEN t ELSE RStrip(SubSeq(t, 1, Len(t) - 1))

\* str.strip()
Strip(t) == RStrip(LStrip(t))

\* The loop over pdf_reader.pages (lines 192-197): a page without text is
\* skipped, every other page is followed by a newline.
RECURSIVE CollectPages(_)
CollectPages(pages) ==
    IF pages = <<>> THEN <<>>
    ELSE (IF Head(pages) # <<>> THEN Head(pages) \o <<NL>> ELSE <<>>)
            \o CollectPages(Tail(pages))

\* The loop over the rasterized pages (lines 217-221): every page's OCR text
\* is followed by a newline.
RECURSIVE OcrPages(_)
OcrPages(pages) ==
    IF pages = <<>> THEN <<>>
    ELSE Head(pages) \o <<NL>> \o OcrPages(Tail(pages))

\* The native text is taken only above 51 characters.
NativeAcceptedOver51(text) == text # <<>> /\ Len(Strip(text)) > 51

\* The test of line 200: the native text is taken, no OCR.
NativeAccepted(text) == text # <<>> /\ Len(Strip(text)) > 50

\* The test of line 88, negated: the text is enough to go on to structuring.
Meaningful(text) == ~(text = <<>> \/ Len(Strip(text)) < 10)

\* Path(file_path).suffix.lower() for the suffixes of FileSuffixes.
Lower(suffix) ==
    CASE suffix = ".PDF" -> ".pdf"
      [] suffix = ".Png" -> ".png"
      [] OTHER -> suffix

ImageExtensions == {".png", ".jpg", ".jpeg", ".tiff", ".bmp"}

\* A dispatch that hands every file that is no PDF to the image OCR.
ReaderForLenient(file_extension) ==
    IF file_extension = ".pdf" THEN "pdf" ELSE "image"

\* The dispatch of _extract_text_from_file (lines 176-181).
ReaderFor(file_extension) ==
    IF file_extension = ".pdf" THEN "pdf"
    ELSE IF file_extension \in ImageExtensions THEN "image"
    ELSE "unsupported"

\* --------------------------------- the extraction pipeline: the AI's answer
\* response.text is a sequence of tokens: the code fence (three backquotes),
\* the word json, a
\* JSON object, a JSON list, the JSON null, text that is no JSON, whitespace.
Fence == "fence"
JsonWord == "json"
JsonObject == "{...}"
JsonList == "[...]"
JsonNull == "null"
NoJson == "Here is the data"

StartsWith(t, token) == t # <<>> /\ Head(t) = token

RECURSIVE UpToFence(_)
UpToFence(t) ==
    IF t = <<>> \/ Head(t) = Fence THEN <<>> ELSE <<Head(t)>> \o UpToFence(Tail(t))

\* response_text.split(fence)[1] of a text that starts with the fence: what
\* stands between the first fence and the next one.
SecondPiece(t) == UpToFence(Tail(t))

\* Lines 300-307: strip, take the inside of a code fence, drop a leading json.
CleanResponse(response_text) ==
    LET r == Strip(response_text)
    IN  IF StartsWith(r, Fence)
        THEN LET inner == SecondPiece(r)
             IN  Strip(IF StartsWith(inner, JsonWord) THEN Tail(inner) ELSE inner)
        ELSE r

\* json.loads (line 310): the value, whatever its JSON type, or an exception.
JsonLoads(t) ==
    IF t = <<JsonObject>> THEN [ok |-> TRUE, value |-> "dict"]
    ELSE IF t = <<JsonList>> THEN [ok |-> TRUE, value |-> "list"]
    ELSE IF t = <<JsonNull>> THEN [ok |-> TRUE, value |-> "NoneType"]
    ELSE [ok |-> FALSE, value |-> "JSONDecodeError"]

\* ------------------------------------- the extraction pipeline: the regexes
\* The patterns of _extract_with_regex are sequences of quantified character
\* classes, one run of which is the group.  re.search tries the start
\* positions from the left; each element is greedy and gives back characters
\* when the rest of the pattern does not match.
AsciiUpper == <<"A", "B", "C", "D", "E", "F", "G", "H", "I", "J", "K", "L", "M", "N", "O", "P", "Q", "R", "S", "T", "U", "V", "W", "X", "Y", "Z">>
AsciiLower == <<"a", "b", "c", "d", "e", "f", "g", "h", "i", "j", "k", "l", "m", "n", "o", "p", "q", "r", "s", "t", "u", "v", "w", "x", "y", "z">>
DigitChars == <<"0", "1", "2", "3", "4", "5", "6", "7", "8", "9">>
Letters == {AsciiUpper[i] : i \in 1..26} \cup {AsciiLower[i] : i \in 1..26}
Digits == {DigitChars[i] : i \in 1..10}
WhiteSpace == {" ", NL}

\* The characters a literal matches under re.IGNORECASE.
IgnoreCase(c) ==
    {c} \cup {AsciiUpper[i] : i \in {k \in 1..26 : AsciiLower[k] = c}}
        \cup {AsciiLower[i] : i \in {k \in 1..26 : AsciiUpper[k] = c}}

Unbounded == -1
One(S) == [set |-> S, min |-> 1, max |-> 1, group |-> FALSE]
Opt(S) == [set |-> S, min |-> 0, max |-> 1, group |-> FALSE]
Star(S) == [set |-> S, min |-> 0, max |-> Unbounded, group |-> FALSE]
Plus(S) == [set |-> S, min |-> 1, max |-> Unbounded, group |-> FALSE]
Between(S, lo, hi) == [set |-> S, min |-> lo, max |-> hi, group |-> FALSE]
Grouped(pattern) == [k \in 1..Len(pattern) |-> [pattern[k] EXCEPT !.group = TRUE]]
Word(w) == [k \in 1..Len(w) |-> One(IgnoreCase(w[k]))]

\* How many characters from pos on are in S, up to limit.
RECURSIVE RunLen(_, _, _, _)
RunLen(S, text, pos, limit) ==
    IF limit = 0 \/ pos > Len(text) \/ text[pos] \notin S THEN 0
    ELSE 1 + RunLen(S, text, pos + 1, limit - 1)

\* The match of the elements k.. of a pattern at pos: the positions after
\* each element.  TryCount gives element k n characters, then fewer.
RECURSIVE MatchFrom(_, _, _, _)
RECURSIVE TryCount(_, _, _, _, _)
MatchFrom(pattern, k, text, pos) ==
    IF k > Len(pattern) THEN [ok |-> TRUE, ends |-> <<>>]
    ELSE LET e == pattern[k]
             limit == IF e.max = Unbounded THEN Len(text) ELSE e.max
         IN  TryCount(pattern, k, text, pos, RunLen(e.set, text, pos, limit))

TryCount(pattern, k, text, pos, n) ==
    IF n < pattern[k].min THEN [ok |-> FALSE, ends |-> <<>>]
    ELSE LET rest == MatchFrom(pattern, k + 1, text, pos + n)
         IN  IF rest.ok THEN [ok |-> TRUE, ends |-> <<pos + n>> \o rest.ends]
             ELSE TryCount(pattern, k, text, pos, n - 1)

\* group(1) of a match that starts at start.
GroupOf(pattern, text, start, ends) ==
    LET ks == {k \in 1..Len(pattern) : pattern[k].group}
        first == CHOOSE k \in ks : \A l \in ks : k <= l
        last == CHOOSE k \in ks : \A l \in ks : l <= k
        from == IF first = 1 THEN start ELSE ends[first - 1]
    IN  SubSeq(text, from, ends[last] - 1)

\* re.search(pattern, text, re.IGNORECASE) from the start position on.
RECURSIVE SearchFrom(_, _, _)
SearchFrom(pattern, text, start) ==
    IF start > Len(text) + 1 THEN [present |-> FALSE, value |-> <<>>]
    ELSE LET m == MatchFrom(pattern, 1, text, start)
         IN  IF m.ok THEN [present |-> TRUE, value |-> GroupOf(pattern, text, start, m.ends)]
             ELSE SearchFrom(pattern, text, start + 1)

Search(pattern, text) == SearchFrom(pattern, text, 1)

\* The for loop over a list of patterns: group(1) of the first that matches.
RECURSIVE FirstMatch(_, _)
FirstMatch(patterns, text) ==
    IF patterns = <<>> THEN [present |-> FALSE, value |-> <<>>]
    ELSE IF Search(Head(patterns), text).present THEN Search(Head(patterns), text)
    ELSE FirstMatch(Tail(patterns), text)

Sp == Star(WhiteSpace)
Code == Grouped(<<Plus(Letters \cup Digits \cup {"-"})>>)
\* The invoice patterns without the optional number sign of the first.
InvoicePatternsNoHash ==
    << Word(<<"I", "n", "v", "o", "i", "c", "e">>) \o <<Sp, Opt({":"}), Sp>> \o Code,
       Word(<<"I", "n", "v", "o", "i", "c", "e">>) \o <<Sp>> \o Word(<<"N", "u", "m", "b", "e", "r">>) \o <<Sp, Opt({":"}), Sp>> \o Code,
       Word(<<"I", "N", "V">>) \o <<Star({"-"} \cup WhiteSpace)>> \o Code >>

InvoicePatterns ==
    << Word(<<"I", "n", "v", "o", "i", "c", "e">>) \o <<Sp, Opt({"#"}), Sp, Opt({":"}), Sp>> \o Code,
       Word(<<"I", "n", "v", "o", "i", "c", "e">>) \o <<Sp>> \o Word(<<"N", "u", "m", "b", "e", "r">>) \o <<Sp, Opt({":"}), Sp>> \o Code,
       Word(<<"I", "N", "V">>) \o <<Star({"-"} \cup WhiteSpace)>> \o Code >>

DateGroup ==
    Grouped(<<Between(Digits, 1, 2), One({"/", "-"}), Between(Digits, 1, 2),
              One({"/", "-"}), Between(Digits, 2, 4)>>)
DatePatterns ==
    << Word(<<"D", "a", "t", "e">>) \o <<Sp, Opt({":"}), Sp>> \o DateGroup,
       Word(<<"I", "n", "v", "o", "i", "c", "e">>) \o <<Sp>> \o Word(<<"D", "a", "t", "e">>) \o <<Sp, Opt({":"}), Sp>> \o DateGroup,
       DateGroup >>

AmountGroup == Grouped(<<Plus(Digits \cup {","}), Opt({"."}), Star(Digits)>>)
AmountTail == <<Sp, Opt({":"}), Sp, Opt({"$"}), Sp>> \o AmountGroup
AmountPatterns ==
    << Word(<<"T", "o", "t", "a", "l">>) \o AmountTail,
       Word(<<"A", "m", "o", "u", "n", "t">>) \o <<Sp>> \o Word(<<"D", "u", "e">>) \o AmountTail,
       Word(<<"G", "r", "a", "n", "d">>) \o <<Sp>> \o Word(<<"T", "o", "t", "a", "l">>) \o AmountTail >>

\* amount_str: the group without its commas.
Replace(t, c) == SelectSeq(t, LAMBDA x : x # c)

\* float(amount_str) of a string of digits with at most one dot: the number,
\* as its whole part and its decimals without trailing zeros; a string
\* without a digit raises ValueError.
DigitValue(d) == CHOOSE v \in 0..9 : DigitChars[v + 1] = d
RECURSIVE WholeValue(_)
WholeValue(ds) ==
    IF ds = <<>> THEN 0 ELSE 10 * WholeValue(SubSeq(ds, 1, Len(ds) - 1)) + DigitValue(ds[Len(ds)])
RECURSIVE DropZeros(_)
DropZeros(ds) ==
    IF ds = <<>> \/ ds[Len(ds)] # "0" THEN ds ELSE DropZeros(SubSeq(ds, 1, Len(ds) - 1))
Zero == [whole |-> 0, decimals |-> <<>>]
Float(amount_str) ==
    LET dot == {i \in 1..Len(amount_str) : amount_str[i] = "."}
        cut == IF dot = {} THEN Len(amount_str) + 1 ELSE CHOOSE i \in dot : TRUE
        whole == SubSeq(amount_str, 1, cut - 1)
        decimals == SubSeq(amount_str, cut + 1, Len(amount_str))
    IN  IF whole = <<>> /\ decimals = <<>> THEN [ok |-> FALSE, value |-> Zero]
        ELSE [ok |-> TRUE,
              value |-> [whole |-> WholeValue(whole), decimals |-> DropZeros(decimals)]]

\* A field of the dict: None, or a value.
NoText == [present |-> FALSE, value |-> <<>>]
NoNumber == [present |-> FALSE, value |-> Zero]

\* The amount of the first amount pattern that matches, converted; None if
\* nothing matches or the conversion raises (the bare except passes).
AmountOf(text) ==
    LET m == FirstMatch(AmountPatterns, text)
        f == Float(Replace(m.value, ","))
    IN  IF m.present /\ f.ok THEN [present |-> TRUE, value |-> f.value] ELSE NoNumber

\* The dict _extract_with_regex builds from a text (lines 320-373).
RegexRecord(text) ==
    [source |-> "regex", type |-> "dict",
     vendor_name |-> NoText,
     invoice_number |-> FirstMatch(InvoicePatterns, text),
     invoice_date |-> FirstMatch(DatePatterns, text),
     total_amount |-> AmountOf(text),
     currency |-> "USD"]

\* float(amount_str) raises for the text's amount.
ConversionRaises(text) ==
    LET m == FirstMatch(AmountPatterns, text)
    IN  m.present /\ ~Float(Replace(m.value, ",")).ok

\* _extract_with_regex without the try around float(): ValueError escapes.
ExtractWithRegexUncaught(text) ==
    [ok |-> ~ConversionRaises(text), data |-> RegexRecord(text)]

\* _extract_with_regex (lines 320-373): the dict it returns.  Nothing in it
\* raises: re.search of a str never does, and float() is inside try/except.
ExtractWithRegex(text) == [ok |-> TRUE, data |-> RegexRecord(text)]

\* What the model answered to the prompt with a text, parsed.
GeminiRecord(type, text) == [source |-> "gemini", type |-> type, text |-> text]

\* _extract_with_gemini that adds the regex fields to every answer.
ExtractWithGeminiAndRegex(answer, text) ==
    IF answer.ok /\ JsonLoads(CleanResponse(answer.text)).ok
    THEN [ok |-> TRUE,
          data |-> GeminiRecord(JsonLoads(CleanResponse(answer.text)).value, text),
          stages |-> <<"gemini", "regex">>]
    ELSE [ok |-> ExtractWithRegex(text).ok, data |-> ExtractWithRegex(text).data,
          stages |-> <<"gemini", "regex">>]

\* _extract_with_gemini (lines 257-318) on the model's answer, which is a
\* response text or an exception of generate_content / response.text: the
\* data it returns (or the exception of the fallback, which nothing catches
\* before process_invoice) and the stages it ran.
ExtractWithGemini(answer, text) ==
    IF answer.ok /\ JsonLoads(CleanResponse(answer.text)).ok
    THEN [ok |-> TRUE,
          data |-> GeminiRecord(JsonLoads(CleanResponse(answer.text)).value, text),
          stages |-> <<"gemini">>]
    ELSE [ok |-> ExtractWithRegex(text).ok, data |-> ExtractWithRegex(text).data,
          stages |-> <<"gemini", "regex">>]

\* -------------------------------------- the extraction pipeline: one run
\* The record of one InvoiceProcessor: where process_invoice stands (pc), the
\* file's suffix, the texts of the stages, the stages invoked in order, the
\* model's answer, the structured data, the returned dict and the row of the
\* invoices table.
NoAnswer == [ok |-> FALSE, text |-> <<>>]
NoData == [source |-> "none", type |-> "none", text |-> <<>>]
NoResult == [returned |-> FALSE, success |-> FALSE, error |-> None]
NewInvoice == [status |-> "pending", error_message |-> None, data |-> NoData]
NoInvoice == [status |-> "absent", error_message |-> None, data |-> NoData]

\* What a run was given: the file's suffix, the outcome of reading the row
\* and the file, and what PyPDF2, Tesseract and the model returned when asked.
NoGiven ==
    [suffix |-> "", fetch |-> "none", read |-> [ok |-> FALSE, pages |-> <<>>],
     pdf_ocr |-> [ok |-> FALSE, pages |-> <<>>],
     image_ocr |-> [ok |-> FALSE, text |-> <<>>], answer |-> NoAnswer]

\* The run before this one, as far as it is remembered: what it was given,
\* the stages it ran and what it returned.
NoRun ==
    [given |-> NoGiven, stages |-> <<>>, structured_data |-> NoData,
     result |-> NoResult]

NoProcessor ==
    [pc |-> "none", gemini_enabled |-> FALSE, runs |-> 0, suffix |-> "",
     native_text |-> <<>>, ocr_text |-> <<>>, extracted_text |-> <<>>,
     stages |-> <<>>, answer |-> NoAnswer, structured_data |-> NoData,
     result |-> NoResult, invoice |-> NewInvoice, given |-> NoGiven,
     prev |-> NoRun]

LastRun(p) ==
    IF p.pc # "done" THEN NoRun
    ELSE [given |-> p.given, stages |-> p.stages,
          structured_data |-> p.structured_data, result |-> p.result]

\* The except branch of process_invoice (lines 136-150): the row, if there is
\* one, is marked failed with the error's text, and the failure is returned.
FailRun(p, error) ==
    [p EXCEPT !.pc = "done",
              !.result = [returned |-> TRUE, success |-> FALSE, error |-> error],
              !.invoice = IF p.invoice.status = "absent" THEN p.invoice
                          ELSE [p.invoice EXCEPT !.status = "failed",
                                                 !.error_message = error]]

\* ------------------------------------------------------------ the state
NewHist == [calls |-> 0, started_writes |-> 0, completed_writes |-> 0,
            cancelled_pending |-> FALSE, calls_at_cancel |-> 0, executions |-> 0]

\* _process_invoice_job has not run for the job: the attempt it last ran in,
\* how it ended, and the consume_tokens calls and the 'completed' updates of
\* the invoices row that went through for the job.
NoHandling == [attempt |-> 0, outcome |-> "none", consumed |-> 0, completed |-> 0]

\* No asyncio.sleep of the worker has been timed yet.
NoSleep == [since |-> 0, until |-> 0]

\* No get_job / update_job_status call has returned to a caller yet.
NoCall == [op |-> "none", known |-> TRUE, value |-> None]

Init ==
    /\ jobs = <<>>
    /\ store = <<>>
    /\ supabase = TRUE
    /\ running = FALSE
    /\ pc = [w \in Workers |-> "new"]
    /\ wjob = [w \in Workers |-> NoJob]
    /\ holder = NoOne
    /\ now = 0
    /\ hist = <<>>
    /\ wake = [w \in Workers |-> NoSleep]
    /\ ret = NoCall
    /\ pipe = NoProcessor
    /\ ledger = [j \in 1..MaxJobs |-> NoHandling]

\* update_job_status(job_id, status, error_message, result) on the jobs js;
\* db_ok tells whether the table update went through (an exception is logged
\* and swallowed).  hist counts the writes of the two timestamps.
UpdateJobStatus(js, job_id, status, error_message, result, db_ok) ==
    LET job == UpdatedJob(js[job_id], status, error_message, result, now)
    IN  /\ jobs' = [js EXCEPT ![job_id] = job]
        /\ store' = IF supabase /\ db_ok
                        THEN [store EXCEPT ![job_id] =
                                UpdatedRow(@, job, status, error_message, result)]
                        ELSE store

\* The history of one update_job_status call on job: the timestamps it wrote.
HistAfterUpdate(h, job, status) ==
    [h EXCEPT
        !.started_writes = @ + (IF WritesStartedAt(job, status) THEN 1 ELSE 0),
        !.completed_writes = @ + (IF WritesCompletedAt(job, status) THEN 1 ELSE 0)]

\* ---------------------------------------------------------- the actions
\* datetime.utcnow() advances.
Tick ==
    /\ now < MaxClock
    /\ now' = now + 1
    /\ UNCHANGED <<jobs, store, supabase, running, pc, wjob, holder, hist, wake, ret, pipe, ledger>>

\* add_job with an id that is not fresh: the new job takes the key of the
\* newest job of the dict.
AddJobOverwriting(job_type, priority, max_retries, db_ok) ==
    /\ holder = NoOne
    /\ Len(jobs) < MaxJobs
    /\ LET job == NewJob(job_type, priority, max_retries, now)
       IN  IF Len(jobs) = 0
           THEN /\ jobs' = Append(jobs, job)
                /\ store' = Append(store, IF supabase /\ db_ok THEN InsertedRow(job) ELSE NoRow)
                /\ hist' = Append(hist, NewHist)
           ELSE /\ jobs' = [jobs EXCEPT ![Len(jobs)] = job]
                /\ store' = IF supabase /\ db_ok
                                THEN [store EXCEPT ![Len(jobs)] = InsertedRow(job)]
                                ELSE store
                /\ hist' = [hist EXCEPT ![Len(jobs)] = NewHist]
    /\ UNCHANGED <<supabase, running, pc, wjob, holder, now, wake, ret, pipe, ledger>>

\* add_job(job_type, payload, priority, max_retries)
AddJob(job_type, priority, max_retries, db_ok) ==
    /\ holder = NoOne
    /\ Len(jobs) < MaxJobs
    /\ LET job == NewJob(job_type, priority, max_retries, now)
       IN  /\ jobs' = Append(jobs, job)
           /\ store' = Append(store, IF supabase /\ db_ok THEN InsertedRow(job) ELSE NoRow)
    /\ hist' = Append(hist, NewHist)
    /\ UNCHANGED <<supabase, running, pc, wjob, holder, now, wake, ret, pipe, ledger>>

\* A cancel request: the queue has no cancel method of its own, a caller sets
\* the status with update_job_status(job_id, CANCELLED); it does so for a job
\* that is Pending, Processing or Retrying.
Cancel(job_id, db_ok) ==
    /\ holder = NoOne
    /\ jobs[job_id].status \in {PENDING, PROCESSING, RETRYING}
    /\ UpdateJobStatus(jobs, job_id, CANCELLED, None, None, db_ok)
    /\ hist' = [hist EXCEPT ![job_id] =
                  [HistAfterUpdate(@, jobs[job_id], CANCELLED) EXCEPT
                      !.cancelled_pending = @ \/ jobs[job_id].status = PENDING,
                      !.calls_at_cancel = IF jobs[job_id].status = PENDING
                                              THEN hist[job_id].calls ELSE @]]
    /\ UNCHANGED <<supabase, running, pc, wjob, holder, now, wake, ret, pipe, ledger>>

\* start_worker up to its loop (lines 305-306): the task's first run.
StartWorker(w) ==
    /\ holder = NoOne
    /\ pc[w] = "new"
    /\ running' = TRUE
    /\ pc' = [pc EXCEPT ![w] = "loop"]
    /\ holder' = w
    /\ UNCHANGED <<jobs, store, supabase, wjob, now, hist, wake, ret, pipe, ledger>>

\* stop_worker with a worker task to cancel: the sleeping workers end at once
\* (CancelledError is no Exception and passes both except clauses), whatever
\* they were doing.
StopWorkerCancelling ==
    /\ holder = NoOne
    /\ running
    /\ running' = FALSE
    /\ pc' = [w \in Workers |-> IF pc[w] \in {"poll", "backoff"} THEN "exited" ELSE pc[w]]
    /\ wjob' = [w \in Workers |-> IF pc[w] \in {"poll", "backoff"} THEN NoJob ELSE wjob[w]]
    /\ UNCHANGED <<jobs, store, supabase, holder, now, hist, wake, ret, pipe, ledger>>

\* stop_worker: _worker_task is never assigned, so nothing is cancelled.
StopWorker ==
    /\ holder = NoOne
    /\ running
    /\ running' = FALSE
    /\ UNCHANGED <<jobs, store, supabase, pc, wjob, holder, now, hist, wake, ret, pipe, ledger>>

\* while self.running: false, the loop ends.
WorkerExit(w) ==
    /\ holder = w
    /\ pc[w] = "loop"
    /\ ~running
    /\ pc' = [pc EXCEPT ![w] = "exited"]
    /\ holder' = NoOne
    /\ UNCHANGED <<jobs, store, supabase, running, wjob, now, hist, wake, ret, pipe, ledger>>

\* One iteration with no Pending job: get_next_job returns None and the loop
\* suspends in asyncio.sleep(poll_interval).  (The except branch of the loop is
\* not reachable: get_next_job raises nothing and process_job catches every
\* Exception.)
IdleStep(w) ==
    /\ holder = w
    /\ pc[w] = "loop"
    /\ running
    /\ GetNextJob(jobs) = NoJob
    /\ pc' = [pc EXCEPT ![w] = "poll"]
    /\ holder' = NoOne
    /\ UNCHANGED <<jobs, store, supabase, running, wjob, now, hist, ret, pipe, ledger>>

\* ... with the length of the sleep left open.
WorkerIdle(w) == IdleStep(w) /\ UNCHANGED wake

\* The poll sleep is over: the loop resumes.
PollElapsed(w) ==
    /\ holder = NoOne
    /\ pc[w] = "poll"
    /\ pc' = [pc EXCEPT ![w] = "loop"]
    /\ holder' = w
    /\ UNCHANGED <<jobs, store, supabase, running, wjob, now, hist, wake, ret, pipe, ledger>>

\* One iteration with a Pending job: get_next_job returns it and process_job
\* starts (lines 199-202): attempts += 1, status Processing.
WorkerClaim(w, db_ok) ==
    /\ holder = w
    /\ pc[w] = "loop"
    /\ running
    /\ GetNextJob(jobs) # NoJob
    /\ LET id == GetNextJob(jobs)
       IN  /\ UpdateJobStatus([jobs EXCEPT ![id].attempts = @ + 1], id,
                               PROCESSING, None, None, db_ok)
           /\ hist' = [hist EXCEPT ![id] = HistAfterUpdate(@, jobs[id], PROCESSING)]
           /\ wjob' = [wjob EXCEPT ![w] = id]
    /\ pc' = [pc EXCEPT ![w] = "handler"]
    /\ UNCHANGED <<supabase, running, holder, now, wake, ret, pipe, ledger>>

\* The handler returns its result (lines 217-219).
HandlerSuccess(w, out, db_ok) ==
    /\ holder = w
    /\ pc[w] = "handler"
    /\ out \in HandlerOutcomes(jobs[wjob[w]].type)
    /\ out.ok
    /\ UpdateJobStatus(jobs, wjob[w], COMPLETED, None, out.value, db_ok)
    /\ hist' = [hist EXCEPT ![wjob[w]] =
                  [HistAfterUpdate(@, jobs[wjob[w]], COMPLETED) EXCEPT
                      !.calls = @ + 1, !.executions = @ + 1]]
    /\ pc' = [pc EXCEPT ![w] = "loop"]
    /\ wjob' = [wjob EXCEPT ![w] = NoJob]
    /\ UNCHANGED <<supabase, running, holder, now, wake, ret, pipe, ledger>>

\* The dispatch raises and retries are left (lines 221-230): status Retrying,
\* then the task suspends in asyncio.sleep(2 ** attempts).
FailRetryStep(w, out, db_ok) ==
    /\ holder = w
    /\ pc[w] = "handler"
    /\ out \in HandlerOutcomes(jobs[wjob[w]].type)
    /\ ~out.ok
    /\ ShouldRetry(jobs[wjob[w]])
    /\ UpdateJobStatus(jobs, wjob[w], RETRYING, out.value, None, db_ok)
    /\ hist' = [hist EXCEPT ![wjob[w]] =
                  [HistAfterUpdate(@, jobs[wjob[w]], RETRYING) EXCEPT
                      !.calls = @ + (IF HasHandler(jobs[wjob[w]].type) THEN 1 ELSE 0),
                      !.executions = @ + 1]]
    /\ pc' = [pc EXCEPT ![w] = "backoff"]
    /\ holder' = NoOne
    /\ UNCHANGED <<supabase, running, wjob, now, ret, pipe, ledger>>

\* The dispatch raises and retries are left, but the backoff is handed to a
\* task of its own: the job is Retrying and the worker goes on with its loop.
HandlerFailRetryDetached(w, out, db_ok) ==
    /\ holder = w
    /\ pc[w] = "handler"
    /\ out \in HandlerOutcomes(jobs[wjob[w]].type)
    /\ ~out.ok
    /\ ShouldRetry(jobs[wjob[w]])
    /\ UpdateJobStatus(jobs, wjob[w], RETRYING, out.value, None, db_ok)
    /\ hist' = [hist EXCEPT ![wjob[w]] =
                  [HistAfterUpdate(@, jobs[wjob[w]], RETRYING) EXCEPT
                      !.calls = @ + (IF HasHandler(jobs[wjob[w]].type) THEN 1 ELSE 0),
                      !.executions = @ + 1]]
    /\ pc' = [pc EXCEPT ![w] = "loop"]
    /\ wjob' = [wjob EXCEPT ![w] = NoJob]
    /\ UNCHANGED <<supabase, running, holder, now, wake, ret, pipe, ledger>>

\* ... with the length of the sleep left open.
HandlerFailRetry(w, out, db_ok) == FailRetryStep(w, out, db_ok) /\ UNCHANGED wake

\* The dispatch raises past process_job: the loop's own except branch (lines
\* 317-319) logs it and sleeps, and the job is left as it was.
HandlerFailFinalUnhandled(w, out, db_ok) ==
    /\ holder = w
    /\ pc[w] = "handler"
    /\ out \in HandlerOutcomes(jobs[wjob[w]].type)
    /\ ~out.ok
    /\ ~ShouldRetry(jobs[wjob[w]])
    /\ hist' = [hist EXCEPT ![wjob[w]].executions = @ + 1]
    /\ pc' = [pc EXCEPT ![w] = "poll"]
    /\ wjob' = [wjob EXCEPT ![w] = NoJob]
    /\ holder' = NoOne
    /\ UNCHANGED <<jobs, store, supabase, running, now, wake, ret, pipe, ledger>>

\* The dispatch raises and no retry is left (lines 232-236): status Failed.
HandlerFailFinal(w, out, db_ok) ==
    /\ holder = w
    /\ pc[w] = "handler"
    /\ out \in HandlerOutcomes(jobs[wjob[w]].type)
    /\ ~out.ok
    /\ ~ShouldRetry(jobs[wjob[w]])
    /\ UpdateJobStatus(jobs, wjob[w], FAILED, out.value, None, db_ok)
    /\ hist' = [hist EXCEPT ![wjob[w]] =
                  [HistAfterUpdate(@, jobs[wjob[w]], FAILED) EXCEPT
                      !.calls = @ + (IF HasHandler(jobs[wjob[w]].type) THEN 1 ELSE 0),
                      !.executions = @ + 1]]
    /\ pc' = [pc EXCEPT ![w] = "loop"]
    /\ wjob' = [wjob EXCEPT ![w] = NoJob]
    /\ UNCHANGED <<supabase, running, holder, now, wake, ret, pipe, ledger>>

\* The backoff sleep is over but the job is not reset: it stays as it is.
BackoffElapsedNoReset(w, db_ok) ==
    /\ holder = NoOne
    /\ pc[w] = "backoff"
    /\ pc' = [pc EXCEPT ![w] = "loop"]
    /\ wjob' = [wjob EXCEPT ![w] = NoJob]
    /\ holder' = w
    /\ UNCHANGED <<jobs, store, supabase, running, now, hist, wake, ret, pipe, ledger>>

\* The backoff sleep is over (lines 231, 236): status Pending, process_job
\* returns False and the loop goes on.
BackoffElapsed(w, db_ok) ==
    /\ holder = NoOne
    /\ pc[w] = "backoff"
    /\ UpdateJobStatus(jobs, wjob[w], PENDING, None, None, db_ok)
    /\ hist' = [hist EXCEPT ![wjob[w]] = HistAfterUpdate(@, jobs[wjob[w]], PENDING)]
    /\ pc' = [pc EXCEPT ![w] = "loop"]
    /\ wjob' = [wjob EXCEPT ![w] = NoJob]
    /\ holder' = w
    /\ UNCHANGED <<supabase, running, now, wake, ret, pipe, ledger>>

Next ==
    \/ Tick
    \/ \E t \in JobTypes, p \in JobPriority, m \in RetryChoices, ok \in DbOutcomes :
            AddJob(t, p, m, ok)
    \/ \E j \in Ids, ok \in DbOutcomes : Cancel(j, ok)
    \/ \E w \in Workers : StartWorker(w)
    \/ \E w \in Workers : WorkerIdle(w)
    \/ \E w \in Workers : PollElapsed(w)
    \/ \E w \in Workers, ok \in DbOutcomes : WorkerClaim(w, ok)
    \/ \E w \in Workers, ok \in DbOutcomes :
            \E out \in AllOutcomes : HandlerSuccess(w, out, ok)
    \/ \E w \in Workers, ok \in DbOutcomes :
            \E out \in AllOutcomes : HandlerFailRetry(w, out, ok)
    \/ \E w \in Workers, ok \in DbOutcomes :
            \E out \in AllOutcomes : HandlerFailFinal(w, out, ok)
    \/ \E w \in Workers, ok \in DbOutcomes : BackoffElapsed(w, ok)

\* The queue with its workers started and never stopped.
Spec == Init /\ [][Next]_vars

\* ------------------------------------------- the queue with a failing table
\* The job_queue table may raise on any call (lines 114-115, 155-156).  The
\* inputs are narrowed to keep the table's outcomes enumerable: one worker,
\* registered job types, two priorities, zero or two retries, and the clock
\* standing still (no timestamp matters to the table's outcome).
DbWorkers == {"w1"}
DbJobTypes == {"process_invoice"}
DbPriorities == {NORMAL, HIGH}
DbRetryChoices == {0, 2}

NextDb ==
    \/ \E t \in DbJobTypes, p \in DbPriorities, m \in DbRetryChoices, ok \in BOOLEAN :
            AddJob(t, p, m, ok)
    \/ \E j \in Ids, ok \in BOOLEAN : Cancel(j, ok)
    \/ \E w \in DbWorkers : StartWorker(w)
    \/ \E w \in DbWorkers : WorkerIdle(w)
    \/ \E w \in DbWorkers : PollElapsed(w)
    \/ \E w \in DbWorkers, ok \in BOOLEAN : WorkerClaim(w, ok)
    \/ \E w \in DbWorkers, ok \in BOOLEAN :
            \E out \in AllOutcomes : HandlerSuccess(w, out, ok)
    \/ \E w \in DbWorkers, ok \in BOOLEAN :
            \E out \in AllOutcomes : HandlerFailRetry(w, out, ok)
    \/ \E w \in DbWorkers, ok \in BOOLEAN :
            \E out \in AllOutcomes : HandlerFailFinal(w, out, ok)
    \/ \E w \in DbWorkers, ok \in BOOLEAN : BackoffElapsed(w, ok)

SpecDb == Init /\ [][NextDb]_vars

\* ------------------------------------------------ the queue with its timers
\* The two asyncio.sleep calls with their lengths, in seconds of the clock.
\* Time passes while the event loop is idle and no timer is due (an idle loop
\* runs a due timer at once), and while a handler runs: the handlers make
\* blocking calls (lines 252-266, 278-282) and the loop runs nothing else
\* meanwhile.
\* The workers are started with start_worker(poll_interval=1); the jobs are
\* added with max_retries=2, so that a first failure is retried after 2 ** 1.
MaxTime == 3
PollInterval == 1
TimedJobTypes == {"process_invoice"}
TimedPriorities == {NORMAL}
TimedRetryChoices == {2}

\* A backoff that grows linearly.
BackoffLinear(attempts) == attempts

\* The length of the backoff sleep (line 230).
Backoff(attempts) == 2 ^ attempts

Sleeping(w) == pc[w] \in {"poll", "backoff"}

Due(w) == wake[w].until <= now

TickTimed ==
    /\ now < MaxTime
    /\ \/ holder = NoOne /\ \A w \in Workers : Sleeping(w) => ~Due(w)
       \/ holder # NoOne /\ pc[holder] = "handler"
    /\ now' = now + 1
    /\ UNCHANGED <<jobs, store, supabase, running, pc, wjob, holder, hist, wake, ret, pipe, ledger>>

\* asyncio.sleep(poll_interval), line 315.
WorkerIdleTimed(w) ==
    /\ IdleStep(w)
    /\ wake' = [wake EXCEPT ![w] = [since |-> now, until |-> now + PollInterval]]

PollElapsedTimed(w) == Due(w) /\ PollElapsed(w)

\* asyncio.sleep(2 ** job.attempts), line 230.
HandlerFailRetryTimed(w, out, db_ok) ==
    /\ FailRetryStep(w, out, db_ok)
    /\ wake' = [wake EXCEPT ![w] =
                  [since |-> now, until |-> now + Backoff(jobs[wjob[w]].attempts)]]

BackoffElapsedTimed(w, db_ok) == Due(w) /\ BackoffElapsed(w, db_ok)

NextTimed ==
    \/ TickTimed
    \/ \E t \in TimedJobTypes, p \in TimedPriorities, m \in TimedRetryChoices,
          ok \in DbOutcomes : AddJob(t, p, m, ok)
    \/ \E j \in Ids, ok \in DbOutcomes : Cancel(j, ok)
    \/ \E w \in Workers : StartWorker(w)
    \/ StopWorker
    \/ \E w \in Workers : WorkerExit(w)
    \/ \E w \in Workers : WorkerIdleTimed(w)
    \/ \E w \in Workers : PollElapsedTimed(w)
    \/ \E w \in Workers, ok \in DbOutcomes : WorkerClaim(w, ok)
    \/ \E w \in Workers, ok \in DbOutcomes :
            \E out \in AllOutcomes : HandlerSuccess(w, out, ok)
    \/ \E w \in Workers, ok \in DbOutcomes :
            \E out \in AllOutcomes : HandlerFailRetryTimed(w, out, ok)
    \/ \E w \in Workers, ok \in DbOutcomes :
            \E out \in AllOutcomes : HandlerFailFinal(w, out, ok)
    \/ \E w \in Workers, ok \in DbOutcomes : BackoffElapsedTimed(w, ok)

SpecTimed == Init /\ [][NextTimed]_vars

\* ------------------------------------- the queue with its callers' probes
\* What get_job returns (line 122): the job, or None.
GetJobReturn(js, job_id) == IF job_id \in 1..Len(js) THEN "job" ELSE None

\* What update_job_status returns: None from the bare return of line 131, and
\* None from the end of the method.
UpdateJobStatusReturn(js, job_id) == IF job_id \in 1..Len(js) THEN None ELSE None

\* The ids a caller may ask for: those of the dict and one that is no key.
AnyIds == 1..(MaxJobs + 1)

\* A caller's get_job(job_id).
GetJobCall(job_id) ==
    /\ holder = NoOne
    /\ ret' = [op |-> "get_job", known |-> job_id \in Ids,
               value |-> GetJobReturn(jobs, job_id)]
    /\ UNCHANGED <<jobs, store, supabase, running, pc, wjob, holder, now, hist, wake, pipe, ledger>>

\* A caller's update_job_status(job_id, ...) with an id that is no key of the
\* dict (lines 128-131): a warning is logged and the method returns.
UpdateMissing(job_id) ==
    /\ holder = NoOne
    /\ job_id \notin Ids
    /\ ret' = [op |-> "update_job_status", known |-> FALSE,
               value |-> UpdateJobStatusReturn(jobs, job_id)]
    /\ UNCHANGED <<jobs, store, supabase, running, pc, wjob, holder, now, hist, wake, pipe, ledger>>

\* The queue with stop_worker and the callers' probes: a worker that finds
\* self.running false leaves its loop.  The inputs are those of the queue
\* with a failing table, the table itself never raises, the clock stands still.
NextStop ==
    \/ \E t \in DbJobTypes, p \in DbPriorities, m \in DbRetryChoices, ok \in DbOutcomes :
            AddJob(t, p, m, ok)
    \/ \E j \in Ids, ok \in DbOutcomes : Cancel(j, ok)
    \/ \E j \in AnyIds : GetJobCall(j)
    \/ \E j \in AnyIds : UpdateMissing(j)
    \/ \E w \in Workers : StartWorker(w)
    \/ StopWorker
    \/ \E w \in Workers : WorkerExit(w)
    \/ \E w \in Workers : WorkerIdle(w)
    \/ \E w \in Workers : PollElapsed(w)
    \/ \E w \in Workers, ok \in DbOutcomes : WorkerClaim(w, ok)
    \/ \E w \in Workers, ok \in DbOutcomes :
            \E out \in AllOutcomes : HandlerSuccess(w, out, ok)
    \/ \E w \in Workers, ok \in DbOutcomes :
            \E out \in AllOutcomes : HandlerFailRetry(w, out, ok)
    \/ \E w \in Workers, ok \in DbOutcomes :
            \E out \in AllOutcomes : HandlerFailFinal(w, out, ok)
    \/ \E w \in Workers, ok \in DbOutcomes : BackoffElapsed(w, ok)

SpecStop == Init /\ [][NextStop]_vars

\* ------------------------------------------ the queue with a lone worker
\* One start_worker task, jobs of the lowest and the highest of two bands,
\* zero or two retries, cancellations; the table never raises and the clock
\* stands still.
SoloPriorities == {NORMAL, CRITICAL}

NextSolo ==
    \/ \E t \in DbJobTypes, p \in SoloPriorities, m \in DbRetryChoices, ok \in DbOutcomes :
            AddJob(t, p, m, ok)
    \/ \E j \in Ids, ok \in DbOutcomes : Cancel(j, ok)
    \/ \E w \in DbWorkers : StartWorker(w)
    \/ \E w \in DbWorkers : WorkerIdle(w)
    \/ \E w \in DbWorkers : PollElapsed(w)
    \/ \E w \in DbWorkers, ok \in DbOutcomes : WorkerClaim(w, ok)
    \/ \E w \in DbWorkers, ok \in DbOutcomes :
            \E out \in AllOutcomes : HandlerSuccess(w, out, ok)
    \/ \E w \in DbWorkers, ok \in DbOutcomes :
            \E out \in AllOutcomes : HandlerFailRetry(w, out, ok)
    \/ \E w \in DbWorkers, ok \in DbOutcomes :
            \E out \in AllOutcomes : HandlerFailFinal(w, out, ok)
    \/ \E w \in DbWorkers, ok \in DbOutcomes : BackoffElapsed(w, ok)

SpecSolo == Init /\ [][NextSolo]_vars

\* ------------------------------------------- the queue with a fair worker
\* One worker loop that is started and keeps taking its steps: the event loop
\* runs a ready task, a sleep ends, a handler returns.  The callers (add_job,
\* cancel) owe nothing.  The inputs are those of the queue with a failing
\* table, the table never raises, the clock stands still.
NextLive ==
    \/ \E t \in DbJobTypes, p \in DbPriorities, m \in DbRetryChoices, ok \in DbOutcomes :
            AddJob(t, p, m, ok)
    \/ \E j \in Ids, ok \in DbOutcomes : Cancel(j, ok)
    \/ \E w \in DbWorkers : StartWorker(w)
    \/ \E w \in DbWorkers : WorkerIdle(w)
    \/ \E w \in DbWorkers : PollElapsed(w)
    \/ \E w \in DbWorkers, ok \in DbOutcomes : WorkerClaim(w, ok)
    \/ \E w \in DbWorkers, ok \in DbOutcomes :
            \E out \in AllOutcomes : HandlerSuccess(w, out, ok)
    \/ \E w \in DbWorkers, ok \in DbOutcomes :
            \E out \in AllOutcomes : HandlerFailRetry(w, out, ok)
    \/ \E w \in DbWorkers, ok \in DbOutcomes :
            \E out \in AllOutcomes : HandlerFailFinal(w, out, ok)
    \/ \E w \in DbWorkers, ok \in DbOutcomes : BackoffElapsed(w, ok)

\* The handler of the job in hand returns, one way or another.
HandlerReturns(w) ==
    \E ok \in DbOutcomes, out \in AllOutcomes :
        \/ HandlerSuccess(w, out, ok)
        \/ HandlerFailRetry(w, out, ok)
        \/ HandlerFailFinal(w, out, ok)

FairWorker(w) ==
    /\ WF_vars(StartWorker(w))
    /\ WF_vars(WorkerIdle(w))
    /\ WF_vars(PollElapsed(w))
    /\ WF_vars(\E ok \in DbOutcomes : WorkerClaim(w, ok))
    /\ WF_vars(HandlerReturns(w))
    /\ WF_vars(\E ok \in DbOutcomes : BackoffElapsed(w, ok))

SpecLive == Init /\ [][NextLive]_vars /\ \A w \in DbWorkers : FairWorker(w)

\* ----------------------------------- the fair worker and a caller that stops
\* A caller's stop_worker(), whenever the event loop is free: the flag is
\* cleared whatever it was, also before the worker task has run its first
\* step; _worker_task is None, so nothing is cancelled, and the call returns
\* None.
StopWorkerCall ==
    /\ holder = NoOne
    /\ running' = FALSE
    /\ ret' = [op |-> "stop_worker", known |-> TRUE, value |-> None]
    /\ UNCHANGED <<jobs, store, supabase, pc, wjob, holder, now, hist, wake, pipe, ledger>>

\* One worker task, created by the caller and not yet run, and a caller that
\* may stop the queue at any time.  The worker keeps taking its steps, the
\* test of the flag included.
NextHalt ==
    \/ \E t \in DbJobTypes, p \in DbPriorities, m \in DbRetryChoices, ok \in DbOutcomes :
            AddJob(t, p, m, ok)
    \/ \E j \in Ids, ok \in DbOutcomes : Cancel(j, ok)
    \/ StopWorkerCall
    \/ \E w \in DbWorkers : StartWorker(w)
    \/ \E w \in DbWorkers : WorkerExit(w)
    \/ \E w \in DbWorkers : WorkerIdle(w)
    \/ \E w \in DbWorkers : PollElapsed(w)
    \/ \E w \in DbWorkers, ok \in DbOutcomes : WorkerClaim(w, ok)
    \/ \E w \in DbWorkers, ok \in DbOutcomes :
            \E out \in AllOutcomes : HandlerSuccess(w, out, ok)
    \/ \E w \in DbWorkers, ok \in DbOutcomes :
            \E out \in AllOutcomes : HandlerFailRetry(w, out, ok)
    \/ \E w \in DbWorkers, ok \in DbOutcomes :
            \E out \in AllOutcomes : HandlerFailFinal(w, out, ok)
    \/ \E w \in DbWorkers, ok \in DbOutcomes : BackoffElapsed(w, ok)

SpecHalt ==
    /\ Init
    /\ [][NextHalt]_vars
    /\ \A w \in DbWorkers : FairWorker(w) /\ WF_vars(WorkerExit(w))

\* ------------------------------------------------- the extraction pipeline
\* The processor runs on its own: the queue's variables stay as they are.
\* The final table updates are taken to go through.
MaxRuns == 2

queueVars == <<jobs, store, supabase, running, pc, wjob, holder, now, hist, wake, ret, ledger>>

X(n) == Rep("x", n)
Spaced == <<"x", " ", "x", " ", "x", " ", "x", " ", "x", " ", "x">>
InvoiceText ==
    <<"I", "n", "v", "o", "i", "c", "e", " ", "#", "1", "0", "0", "1", " ">> \o
    <<"T", "o", "t", "a", "l", ":", " ", "$", "2", "5", "0", ".", "0", "0">>
CommasText == <<"T", "o", "t", "a", "l", ":", " ", ",", ",", ",", ",">>
NumberedText ==
    <<"I", "n", "v", "o", "i", "c", "e", " ", "N", "u", "m", "b", "e", "r", ":", " ", "A", "-", "1", "7", " ">> \o
    <<"D", "a", "t", "e", ":", " ", "1", "/", "2", "/", "2", "4">>

ApiKeys == {"", "your-gemini-api-key", "AIza"}
Suffixes == {".pdf", ".PDF", ".png", ".Png", ".jpg", ".jpeg", ".tiff", ".bmp",
             ".gif", ".txt", ""}
Fetches == {"ok", "not_found", "no_file_path", "download_failed"}

\* What PyPDF2 gives for the pages of a file, or its exception.
PdfReads ==
    {[ok |-> FALSE, pages |-> <<>>]} \cup
    {[ok |-> TRUE, pages |-> ps] :
        ps \in {<<>>, << <<>> >>, <<X(5)>>, <<X(50)>>, <<X(51)>>,
                <<X(25), X(25)>>, <<X(25), <<>>, X(24)>>,
                << <<" ">> \o X(50) \o <<" ", NL>> >>}}

\* What Tesseract gives for the pages of a rasterized PDF, or an exception
\* of the conversion or of Tesseract.
PdfOcrs ==
    {[ok |-> FALSE, pages |-> <<>>]} \cup
    {[ok |-> TRUE, pages |-> ps] :
        ps \in {<<>>, << <<>> >>, <<X(9)>>, <<X(10)>>, <<X(11)>>, <<Spaced>>,
                <<X(5), X(5)>>, <<InvoiceText>>, <<CommasText>>}}

\* What Tesseract gives for an image, or its exception.
ImageOcrs ==
    {[ok |-> FALSE, text |-> <<>>]} \cup
    {[ok |-> TRUE, text |-> t] :
        t \in {<<>>, <<" ", NL>>, X(9), X(10), X(11), Spaced,
               <<" ">> \o X(9) \o <<NL, NL>>, InvoiceText, CommasText, NumberedText}}

\* What the model answers: a response text, or an exception.
Answers ==
    {NoAnswer} \cup
    {[ok |-> TRUE, text |-> t] :
        t \in {<<>>, <<JsonObject>>, <<" ", JsonObject, NL>>,
               <<Fence, JsonWord, NL, JsonObject, NL, Fence>>,
               <<Fence, NL, JsonObject, NL, Fence>>,
               <<NoJson, NL, JsonObject>>, <<NoJson>>,
               <<Fence, JsonWord, NL, NoJson, NL, Fence>>,
               <<JsonList>>, <<JsonNull>>,
               <<Fence, JsonWord, NL, JsonList, NL, Fence>>}}

\* InvoiceProcessor(supabase_client, gemini_api_key).
NewProcessor(gemini_api_key) ==
    /\ pipe.pc = "none"
    /\ pipe' = [pipe EXCEPT !.pc = "idle",
                            !.gemini_enabled = gemini_api_key # ""
                                /\ gemini_api_key # "your-gemini-api-key"]
    /\ UNCHANGED queueVars

\* process_invoice that goes on with the stages list of the run before.
ProcessInvoiceStepKeepingStages(suffix, fetch, prev) ==
    /\ pipe.pc \in {"idle", "done"}
    /\ pipe.runs < MaxRuns
    /\ LET p == [NoProcessor EXCEPT !.gemini_enabled = pipe.gemini_enabled,
                                    !.runs = pipe.runs + 1,
                                    !.suffix = suffix,
                                    !.stages = pipe.stages,
                                    !.given.suffix = suffix,
                                    !.given.fetch = fetch,
                                    !.prev = prev,
                                    !.invoice = IF fetch = "not_found"
                                                THEN NoInvoice ELSE NewInvoice]
       IN  pipe' = CASE fetch = "ok" -> [p EXCEPT !.pc = "extract"]
                     [] fetch = "not_found" -> FailRun(p, "Invoice not found")
                     [] fetch = "no_file_path" -> FailRun(p, "Invoice has no file_path")
                     [] OTHER -> FailRun(p, "Failed to download file from storage")
    /\ UNCHANGED queueVars

\* process_invoice, steps 1 and 2: the row is read and the file downloaded.
\* Every run starts from the processor as it was built (process_invoice and
\* the functions it calls assign no attribute of self) and from a row that
\* has not been processed; prev is what is remembered of the run before.
ProcessInvoiceStep(suffix, fetch, prev) ==
    /\ pipe.pc \in {"idle", "done"}
    /\ pipe.runs < MaxRuns
    /\ LET p == [NoProcessor EXCEPT !.gemini_enabled = pipe.gemini_enabled,
                                    !.runs = pipe.runs + 1,
                                    !.suffix = suffix,
                                    !.given.suffix = suffix,
                                    !.given.fetch = fetch,
                                    !.prev = prev,
                                    !.invoice = IF fetch = "not_found"
                                                THEN NoInvoice ELSE NewInvoice]
       IN  pipe' = CASE fetch = "ok" -> [p EXCEPT !.pc = "extract"]
                     [] fetch = "not_found" -> FailRun(p, "Invoice not found")
                     [] fetch = "no_file_path" -> FailRun(p, "Invoice has no file_path")
                     [] OTHER -> FailRun(p, "Failed to download file from storage")
    /\ UNCHANGED queueVars

\* ... with nothing remembered of the run before.
ProcessInvoice(suffix, fetch) == ProcessInvoiceStep(suffix, fetch, NoRun)

\* ... with the run before remembered.
ProcessInvoiceAgain(suffix, fetch) == ProcessInvoiceStep(suffix, fetch, LastRun(pipe))

\* _extract_text_from_file: the reader is chosen by the lowered suffix.
ExtractTextFromFile ==
    /\ pipe.pc = "extract"
    /\ LET reader == ReaderFor(Lower(pipe.suffix))
       IN  pipe' = CASE reader = "pdf" -> [pipe EXCEPT !.pc = "pdf"]
                     [] reader = "image" -> [pipe EXCEPT !.pc = "image"]
                     [] OTHER -> FailRun(pipe, "Unsupported file type")
    /\ UNCHANGED queueVars

\* _extract_text_from_pdf, first half: the text layer is read and returned if
\* it is long enough.
ExtractTextFromPdf(read) ==
    /\ pipe.pc = "pdf"
    /\ LET p == [pipe EXCEPT !.stages = Append(@, "native"), !.given.read = read]
           text == CollectPages(read.pages)
       IN  pipe' = IF ~read.ok THEN FailRun(p, "PDF read error")
                   ELSE IF NativeAccepted(text)
                   THEN [p EXCEPT !.native_text = text, !.extracted_text = text,
                                  !.pc = "check"]
                   ELSE [p EXCEPT !.native_text = text, !.pc = "pdf_ocr"]
    /\ UNCHANGED queueVars

\* The OCR fallback that keeps the short native text in front of the OCR text.
PdfOcrKeepingNative(ocr) ==
    /\ pipe.pc = "pdf_ocr"
    /\ LET p == [pipe EXCEPT !.stages = Append(@, "ocr"), !.given.pdf_ocr = ocr]
           ocr_text == OcrPages(ocr.pages)
       IN  pipe' = IF ~ocr.ok THEN FailRun(p, "OCR error")
                   ELSE [p EXCEPT !.ocr_text = ocr_text,
                                  !.extracted_text = pipe.native_text \o ocr_text,
                                  !.pc = "check"]
    /\ UNCHANGED queueVars

\* _extract_text_from_pdf, second half: the pages are rasterized and read by
\* Tesseract.
PdfOcr(ocr) ==
    /\ pipe.pc = "pdf_ocr"
    /\ LET p == [pipe EXCEPT !.stages = Append(@, "ocr"), !.given.pdf_ocr = ocr]
           ocr_text == OcrPages(ocr.pages)
       IN  pipe' = IF ~ocr.ok THEN FailRun(p, "OCR error")
                   ELSE [p EXCEPT !.ocr_text = ocr_text,
                                  !.extracted_text = ocr_text, !.pc = "check"]
    /\ UNCHANGED queueVars

\* _extract_text_from_image.
ExtractTextFromImage(ocr) ==
    /\ pipe.pc = "image"
    /\ LET p == [pipe EXCEPT !.stages = Append(@, "ocr"), !.given.image_ocr = ocr]
       IN  pipe' = IF ~ocr.ok THEN FailRun(p, "OCR error")
                   ELSE [p EXCEPT !.ocr_text = ocr.text,
                                  !.extracted_text = ocr.text, !.pc = "check"]
    /\ UNCHANGED queueVars

\* process_invoice, the test of the extracted text.
CheckText ==
    /\ pipe.pc = "check"
    /\ pipe' = IF Meaningful(pipe.extracted_text)
               THEN [pipe EXCEPT !.pc = "structure"]
               ELSE FailRun(pipe, "OCR failed to extract meaningful text from invoice")
    /\ UNCHANGED queueVars

\* _extract_invoice_data with Gemini enabled: _extract_with_gemini.
ExtractWithGeminiStep(answer) ==
    /\ pipe.pc = "structure"
    /\ pipe.gemini_enabled
    /\ LET r == ExtractWithGemini(answer, pipe.extracted_text)
           p == [pipe EXCEPT !.answer = answer, !.given.answer = answer,
                             !.stages = @ \o r.stages]
       IN  pipe' = IF r.ok THEN [p EXCEPT !.structured_data = r.data, !.pc = "update"]
                   ELSE FailRun(p, "ValueError")
    /\ UNCHANGED queueVars

\* _extract_invoice_data with Gemini disabled: _extract_with_regex.
ExtractWithRegexStep ==
    /\ pipe.pc = "structure"
    /\ ~pipe.gemini_enabled
    /\ LET r == ExtractWithRegex(pipe.extracted_text)
           p == [pipe EXCEPT !.stages = Append(@, "regex")]
       IN  pipe' = IF r.ok THEN [p EXCEPT !.structured_data = r.data, !.pc = "update"]
                   ELSE FailRun(p, "ValueError")
    /\ UNCHANGED queueVars

\* process_invoice, step 5: structured_data.get(...) needs a dict; the row is
\* completed and the success returned.
UpdateInvoice ==
    /\ pipe.pc = "update"
    /\ pipe' = IF pipe.structured_data.type = "dict"
               THEN [pipe EXCEPT !.pc = "done",
                                 !.result = [returned |-> TRUE, success |-> TRUE,
                                             error |-> None],
                                 !.invoice = [status |-> "completed",
                                              error_message |-> None,
                                              data |-> pipe.structured_data]]
               ELSE FailRun(pipe, "AttributeError")
    /\ UNCHANGED queueVars

NextPipe ==
    \/ \E key \in ApiKeys : NewProcessor(key)
    \/ \E suffix \in Suffixes, fetch \in Fetches : ProcessInvoice(suffix, fetch)
    \/ ExtractTextFromFile
    \/ \E read \in PdfReads : ExtractTextFromPdf(read)
    \/ \E ocr \in PdfOcrs : PdfOcr(ocr)
    \/ \E ocr \in ImageOcrs : ExtractTextFromImage(ocr)
    \/ CheckText
    \/ \E answer \in Answers : ExtractWithGeminiStep(answer)
    \/ ExtractWithRegexStep
    \/ UpdateInvoice

SpecPipe == Init /\ [][NextPipe]_vars

\* ------------------------------------- the extraction pipeline, run twice
\* The processor with the run before remembered, on fewer inputs: one PDF
\* and one image suffix, the row found or not, and the texts and answers that
\* take the run through each of its branches.
RerunSuffixes == {".pdf", ".png", ".gif"}
RerunFetches == {"ok", "not_found"}
RerunReads ==
    {[ok |-> FALSE, pages |-> <<>>]} \cup
    {[ok |-> TRUE, pages |-> ps] : ps \in {<<>>, <<X(51)>>}}
RerunPdfOcrs ==
    {[ok |-> FALSE, pages |-> <<>>]} \cup
    {[ok |-> TRUE, pages |-> ps] : ps \in {<<X(9)>>, <<InvoiceText>>}}
RerunImageOcrs ==
    {[ok |-> FALSE, text |-> <<>>]} \cup
    {[ok |-> TRUE, text |-> t] : t \in {X(11), CommasText}}
RerunAnswers ==
    {NoAnswer} \cup
    {[ok |-> TRUE, text |-> t] :
        t \in {<<JsonObject>>, <<Fence, JsonWord, NL, JsonObject, NL, Fence>>,
               <<NoJson>>, <<JsonList>>}}

NextRerun ==
    \/ \E key \in ApiKeys : NewProcessor(key)
    \/ \E suffix \in RerunSuffixes, fetch \in RerunFetches :
            ProcessInvoiceAgain(suffix, fetch)
    \/ ExtractTextFromFile
    \/ \E read \in RerunReads : ExtractTextFromPdf(read)
    \/ \E ocr \in RerunPdfOcrs : PdfOcr(ocr)
    \/ \E ocr \in RerunImageOcrs : ExtractTextFromImage(ocr)
    \/ CheckText
    \/ \E answer \in RerunAnswers : ExtractWithGeminiStep(answer)
    \/ ExtractWithRegexStep
    \/ UpdateInvoice

SpecRerun == Init /\ [][NextRerun]_vars

\* ------------------------------------- the queue with its invoice handler
\* _process_invoice_job, the handler of process_invoice jobs, spelled out:
\* it needs main's supabase_admin, calls the consume_tokens function for 5
\* tokens, marks the invoices row 'completed' and returns.  Either call may
\* raise.  It has no await, so it runs in one piece, and the processor is not
\* among the things it touches.  One worker, process_invoice jobs only, the
\* job_queue table never raises, the clock stands still.
InvoiceOutcomes == {"ok", "no_admin", "rpc_raised", "update_raised"}

InvoiceHandler(w, outcome) ==
    /\ holder = w
    /\ pc[w] = "handler"
    /\ jobs[wjob[w]].type = "process_invoice"
    /\ ledger[wjob[w]].attempt < jobs[wjob[w]].attempts
    /\ ledger' = [ledger EXCEPT ![wjob[w]] =
                    [attempt |-> jobs[wjob[w]].attempts,
                     outcome |-> outcome,
                     consumed |-> @.consumed +
                        (IF outcome \in {"ok", "update_raised"} THEN 1 ELSE 0),
                     completed |-> @.completed + (IF outcome = "ok" THEN 1 ELSE 0)]]
    /\ UNCHANGED <<jobs, store, supabase, running, pc, wjob, holder, now, hist, wake, ret, pipe>>

\* The handler has run in the attempt the worker is in, with that outcome.
Handled(w, outcomes) ==
    /\ pc[w] = "handler"
    /\ ledger[wjob[w]].attempt = jobs[wjob[w]].attempts
    /\ ledger[wjob[w]].outcome \in outcomes

\* process_job goes on with what the handler returned or raised.
InvoiceJobReturns(w, db_ok) ==
    /\ Handled(w, {"ok"})
    /\ HandlerSuccess(w, [ok |-> TRUE, value |-> "invoice_result"], db_ok)

InvoiceJobRaisesRetry(w, db_ok) ==
    /\ Handled(w, InvoiceOutcomes \ {"ok"})
    /\ HandlerFailRetry(w, [ok |-> FALSE, value |-> "E1"], db_ok)

InvoiceJobRaisesFinal(w, db_ok) ==
    /\ Handled(w, InvoiceOutcomes \ {"ok"})
    /\ HandlerFailFinal(w, [ok |-> FALSE, value |-> "E1"], db_ok)

NextTokens ==
    \/ \E t \in DbJobTypes, p \in DbPriorities, m \in DbRetryChoices, ok \in DbOutcomes :
            AddJob(t, p, m, ok)
    \/ \E j \in Ids, ok \in DbOutcomes : Cancel(j, ok)
    \/ \E w \in DbWorkers : StartWorker(w)
    \/ \E w \in DbWorkers : WorkerIdle(w)
    \/ \E w \in DbWorkers : PollElapsed(w)
    \/ \E w \in DbWorkers, ok \in DbOutcomes : WorkerClaim(w, ok)
    \/ \E w \in DbWorkers, outcome \in InvoiceOutcomes : InvoiceHandler(w, outcome)
    \/ \E w \in DbWorkers, ok \in DbOutcomes : InvoiceJobReturns(w, ok)
    \/ \E w \in DbWorkers, ok \in DbOutcomes : InvoiceJobRaisesRetry(w, ok)
    \/ \E w \in DbWorkers, ok \in DbOutcomes : InvoiceJobRaisesFinal(w, ok)
    \/ \E w \in DbWorkers, ok \in DbOutcomes : BackoffElapsed(w, ok)

SpecTokens == Init /\ [][NextTokens]_vars

\* ------------------------------------------------------------ the claims
Rank(j) == PriorityOrder(jobs[j].priority)

PendingIds == {j \in Ids : jobs[j].status = PENDING}

\* Worker w calls get_next_job in this step.
Selects(w) == holder = w /\ pc[w] = "loop" /\ pc'[w] # "loop"

\* get_next_job returned a job to worker w in this step.
Picks(w) == Selects(w) /\ pc'[w] = "handler"

\* C1: of the jobs Pending when get_next_job is called, the job returned has
\* the highest priority (no Pending job outranks it), whatever the submission
\* order; None is returned only when no job is Pending.
C1_HigherPriorityFirst ==
    [][\A w \in Workers :
          /\ Picks(w) => \A j \in PendingIds : Rank(wjob'[w]) <= Rank(j)
          /\ (Selects(w) /\ pc'[w] # "handler") => PendingIds = {}]_vars

\* A worker holds the later-submitted job of higher priority while the job
\* submitted first is still Pending.
C1_Witness ==
    \E w \in Workers :
        /\ holder = w /\ pc[w] = "handler" /\ wjob[w] = 2
        /\ jobs[1].status = PENDING
        /\ Rank(2) < Rank(1)

\* C2: within one priority band get_next_job never returns a job while a job
\* added before it is Pending, also when both were created in one clock tick.
C2_FifoWithinBand ==
    [][\A w \in Workers :
          Picks(w) =>
              \A a \in PendingIds :
                  jobs[a].priority = jobs[wjob'[w]].priority => wjob'[w] <= a]_vars

\* A worker holds the first of two jobs of one band created in the same tick,
\* the second still Pending.
C2_Witness ==
    \E w \in Workers :
        /\ holder = w /\ pc[w] = "handler" /\ wjob[w] = 1
        /\ Len(jobs) = 2 /\ jobs[2].status = PENDING
        /\ jobs[1].priority = jobs[2].priority
        /\ jobs[1].created_at = jobs[2].created_at

\* C3: a job that is Failed was executed max_retries + 1 times.
C3_FailedAfterNPlusOne ==
    \A j \in Ids : jobs[j].status = FAILED => jobs[j].attempts = jobs[j].max_retries + 1

\* C4: no two workers are inside process_job for the same job at once.
C4_NoDoubleSelection ==
    \A w1, w2 \in Workers :
        (w1 # w2 /\ wjob[w1] # NoJob) => wjob[w1] # wjob[w2]

\* Two workers are inside process_job at once, one in its handler and one in
\* its backoff sleep, each with a job of its own.
C4_Witness ==
    \E w1, w2 \in Workers :
        /\ pc[w1] = "handler" /\ pc[w2] = "backoff"
        /\ wjob[w1] # NoJob /\ wjob[w2] # NoJob
        /\ jobs[wjob[w1]].attempts = 1 /\ jobs[wjob[w2]].status = RETRYING

\* The edges of the job state machine.
Edges ==
    {<<PENDING, PROCESSING>>, <<PROCESSING, COMPLETED>>, <<PROCESSING, RETRYING>>,
     <<RETRYING, PENDING>>, <<PROCESSING, FAILED>>,
     <<PENDING, CANCELLED>>, <<PROCESSING, CANCELLED>>, <<RETRYING, CANCELLED>>}

\* C5: every change of a job's status follows an edge of the state machine,
\* and a new job starts Pending.
C5_OnlyLegalTransitions ==
    [][/\ \A j \in Ids :
              jobs'[j].status # jobs[j].status =>
                  <<jobs[j].status, jobs'[j].status>> \in Edges
       /\ \A j \in 1..Len(jobs') : j > Len(jobs) => jobs'[j].status = PENDING]_vars

\* C6: a job cancelled while Pending stays Cancelled, is returned to no worker
\* by get_next_job and its handler is not invoked again.
C6_CancelledPendingNeverRuns ==
    \A j \in Ids :
        hist[j].cancelled_pending =>
            /\ jobs[j].status = CANCELLED
            /\ \A w \in Workers : wjob[w] # j
            /\ hist[j].calls = hist[j].calls_at_cancel

\* The job submitted first, of higher priority, was cancelled while Pending
\* and a worker has since selected the other job.
C6_Witness ==
    \E w \in Workers :
        /\ Len(jobs) = 2 /\ hist[1].cancelled_pending
        /\ Rank(1) < Rank(2)
        /\ pc[w] = "handler" /\ wjob[w] = 2

\* C7: Cancelled is absorbing.
C7_CancelledIsAbsorbing ==
    [][\A j \in Ids : jobs[j].status = CANCELLED => jobs'[j].status = CANCELLED]_vars

\* C8: a Completed job has a result and no error message.
C8_CompletedHasResultNoError ==
    \A j \in Ids :
        jobs[j].status = COMPLETED =>
            jobs[j].result # None /\ jobs[j].error_message = None

\* C9: started_at is written once, on the first transition into Processing;
\* completed_at is written once, on the transition into a terminal status,
\* and is absent while the job is Pending, Processing or Retrying.
C9_TimestampsWrittenOnce ==
    \A j \in Ids :
        /\ hist[j].started_writes = (IF jobs[j].attempts > 0 THEN 1 ELSE 0)
        /\ (jobs[j].started_at # NoTime) = (jobs[j].attempts > 0)
        /\ jobs[j].status \in {PENDING, PROCESSING, RETRYING} =>
                jobs[j].completed_at = NoTime /\ hist[j].completed_writes = 0
        /\ jobs[j].status \in {COMPLETED, FAILED, CANCELLED} =>
                jobs[j].completed_at # NoTime /\ hist[j].completed_writes = 1

\* C10: no job whose type has no handler is in the queue or in the table.
C10_UnknownTypeRejected ==
    \A j \in Ids : HasHandler(jobs[j].type)

\* ------------------------------------------------------------------- C11
\* C11: add_job with a registered type succeeds also when the table insert
\* raises: the id it returns was no key of the dict before, the new job is
\* Pending with attempts 0, no result and no error, its handler has not been
\* invoked and no worker holds it, and every other job and row is unchanged.
C11_AddJobSucceeds ==
    [][\A t \in DbJobTypes, p \in JobPriority, m \in RetryChoices, ok \in BOOLEAN :
          AddJob(t, p, m, ok) =>
              LET id == Len(jobs')
              IN  /\ id \notin Ids
                  /\ Len(jobs') = Len(jobs) + 1
                  /\ jobs'[id].type = t
                  /\ jobs'[id].status = PENDING
                  /\ jobs'[id].attempts = 0
                  /\ jobs'[id].result = None
                  /\ jobs'[id].error_message = None
                  /\ hist'[id].calls = 0
                  /\ hist'[id].executions = 0
                  /\ \A w \in Workers : wjob'[w] # id
                  /\ \A j \in Ids : jobs'[j] = jobs[j] /\ store'[j] = store[j]]_vars

\* A job added while another one was in its backoff, and whose insert raised:
\* it is in the dict, fresh, with no row in the table.
C11_Witness ==
    /\ Len(jobs) = 2
    /\ jobs[1].status = RETRYING
    /\ HasHandler(jobs[2].type)
    /\ jobs[2].status = PENDING
    /\ jobs[2].attempts = 0
    /\ ~store[2].present

\* ------------------------------------------------------------------- C12
\* The text the table holds for a result of the job in memory.
RowResult(result) == IF result = None THEN None ELSE JsonDumps(result)

\* C12: with a table configured, whenever add_job or update_job_status has
\* returned, the row of every job carries the same status, error message and
\* result as the job in memory.
C12_StoreMatchesMemory ==
    supabase =>
        \A j \in Ids :
            /\ store[j].present
            /\ store[j].status = jobs[j].status
            /\ store[j].error_message = jobs[j].error_message
            /\ store[j].result = RowResult(jobs[j].result)

\* ------------------------------------------------------------------- C13
\* The workers that are inside the dispatch of process_job for job j.
InFlight(j) == Cardinality({w \in Workers : pc[w] = "handler" /\ wjob[w] = j})

\* C13: in every reachable state, with the workers interleaving as they may,
\* a job with max_retries = N has attempts <= N + 1, and attempts is the
\* number of times process_job has entered the dispatch for it: the finished
\* executions plus the one in flight.  For a registered type every finished
\* execution was a call of its handler.
C13_AttemptsCountExecutions ==
    \A j \in Ids :
        /\ jobs[j].attempts <= jobs[j].max_retries + 1
        /\ jobs[j].attempts = hist[j].executions + InFlight(j)
        /\ InFlight(j) <= 1
        /\ HasHandler(jobs[j].type) => hist[j].calls = hist[j].executions

\* Two workers at once: one runs the second attempt of a job, the other is in
\* the backoff of another job.
C13_Witness ==
    \E j, k \in Ids :
        /\ j # k
        /\ jobs[j].attempts = 2
        /\ InFlight(j) = 1
        /\ hist[j].executions = 1
        /\ jobs[k].status = RETRYING
        /\ jobs[k].attempts = 1

\* ------------------------------------------------------------------- C14
\* C14: when the dispatch of process_job ends, the job is Completed, or the
\* failure was captured by exactly one transition of that job, to Retrying
\* (the worker then sleeps its backoff) or to Failed (process_job returns
\* False); attempts, the other jobs and self.running are untouched and the
\* worker is back in its loop or in the backoff.  When the backoff is over
\* the job is Pending and the worker is back in its loop.  add_job runs no
\* handler: it changes the history of no job.
C14_FailureCapturedOnce ==
    [][/\ \A w \in Workers :
            (pc[w] = "handler" /\ pc'[w] # "handler") =>
                LET j == wjob[w]
                IN  \/ jobs'[j].status = COMPLETED /\ pc'[w] = "loop"
                    \/ /\ jobs'[j].status \in {RETRYING, FAILED}
                       /\ jobs'[j].status = RETRYING <=> pc'[w] = "backoff"
                       /\ jobs'[j].status = FAILED <=> pc'[w] = "loop"
                       /\ jobs'[j].attempts = jobs[j].attempts
                       /\ hist'[j].executions = hist[j].executions + 1
                       /\ running' = running
                       /\ \A k \in Ids \ {j} : jobs'[k] = jobs[k]
       /\ \A w \in Workers :
            (pc[w] = "backoff" /\ pc'[w] # "backoff") =>
                /\ pc'[w] = "loop"
                /\ jobs'[wjob[w]].status = PENDING
                /\ hist'[wjob[w]].executions = hist[wjob[w]].executions
       /\ Len(jobs') > Len(jobs) => \A j \in Ids : hist'[j] = hist[j]]_vars

\* Both ways a failure is captured: one job Failed, its worker back in the
\* loop or asleep, another job Retrying with its worker in the backoff.
C14_Witness ==
    \E j, k \in Ids, w, v \in Workers :
        /\ jobs[j].status = FAILED
        /\ hist[j].executions = jobs[j].attempts
        /\ pc[v] \in {"loop", "poll"}
        /\ jobs[k].status = RETRYING
        /\ pc[w] = "backoff"
        /\ wjob[w] = k

\* ------------------------------------------------------------------- C15
\* C15: the attempt that makes a job Failed leaves it with an error message
\* present, the text of the exception of that attempt, whatever that text is.
C15_FailedCarriesLastError ==
    [][\A w \in Workers, out \in AllOutcomes :
          HandlerFailFinal(w, out, TRUE) =>
              /\ jobs'[wjob[w]].status = FAILED
              /\ jobs'[wjob[w]].error_message # None
              /\ jobs'[wjob[w]].error_message = out.value]_vars

C17_StopIsCooperative ==
    [][/\ \A j \in 1..Len(jobs') :
            jobs'[j].status \in {PROCESSING, RETRYING} =>
                \E w \in Workers : wjob'[w] = j /\ pc'[w] \in {"handler", "backoff"}
       /\ \A w \in Workers :
            /\ (pc[w] = "handler" /\ pc'[w] # "handler") =>
                    /\ jobs'[wjob[w]].status \in {COMPLETED, FAILED, RETRYING}
                    /\ pc'[w] \in {"loop", "backoff"}
            /\ (pc[w] = "backoff" /\ pc'[w] # "backoff") =>
                    /\ jobs'[wjob[w]].status = PENDING
                    /\ pc'[w] = "loop"
            /\ (pc[w] # "exited" /\ pc'[w] = "exited") =>
                    /\ pc[w] = "loop"
                    /\ wjob[w] = NoJob
                    /\ ~running
            /\ pc[w] = "exited" =>
                    /\ pc'[w] = "exited"
                    /\ wjob'[w] = NoJob]_vars

\* stop_worker was called during the backoff of the only job: the job was
\* executed once, is Pending again, and the worker has left its loop without
\* selecting it.
C17_Witness ==
    /\ ~running
    /\ Len(jobs) = 1
    /\ jobs[1].status = PENDING
    /\ jobs[1].attempts = 1
    /\ hist[1].executions = 1
    /\ \E w \in Workers : pc[w] = "exited"
    /\ \A w \in Workers : pc[w] \in {"new", "exited"}

\* ------------------------------------------------------------------- C18
\* C18: a stop wakes a sleeping worker at once: once stop_worker has set
\* self.running false, no time passes while a worker is still asleep in its
\* poll sleep or its backoff sleep with part of the interval remaining.
C18_StopWakesSleeper ==
    [][\A w \in Workers :
          (~running /\ Sleeping(w) /\ ~Due(w)) => now' = now]_vars

\* ------------------------------------------------------------------- C19
\* stop_worker has been called and no start_worker since: self.running is set
\* by start_worker and cleared by stop_worker only.
Stopped == ~running /\ \E w \in Workers : pc[w] # "new"

\* C19: once stop_worker has been called, add_job fails with
\* SchedulerNotRunning and adds no job: no step enlarges the dict.
C19_NoAddAfterStop ==
    [][Stopped => Len(jobs') = Len(jobs)]_vars

\* ------------------------------------------------------------------- C20
\* What a call returns when the id is a key of the dict.
ReturnOf(op, js, job_id) ==
    IF op = "get_job" THEN GetJobReturn(js, job_id) ELSE UpdateJobStatusReturn(js, job_id)

\* C20: a get_job or an update_job_status with an id that is no key of the
\* dict leaves every job and every row as it was, and its outcome differs
\* from the outcome of the same call with an id that is a key.
C20_UnknownIdSignalled ==
    [][\A i \in AnyIds :
          (i \notin Ids /\ (GetJobCall(i) \/ UpdateMissing(i))) =>
              /\ jobs' = jobs
              /\ store' = store
              /\ \A j \in Ids : ret'.value # ReturnOf(ret'.op, jobs, j)]_vars

\* ------------------------------------------------------------------- C21
\* The status of the j-th job added, None while it has not been added.
StatusOf(j) == IF j \in Ids THEN jobs[j].status ELSE None

\* C21: with a worker loop that keeps running and handlers that return, and
\* submissions that come to an end, every Pending job, whatever its priority,
\* is eventually selected and Processing, unless a caller cancels it first.
C21_NoStarvation ==
    \A j \in 1..MaxJobs :
        [](StatusOf(j) = PENDING => <>(StatusOf(j) \in {PROCESSING, CANCELLED}))

\* The Normal job was submitted first and had to wait: the High job submitted
\* after it is done, and the only worker now runs the Normal job for the
\* first time.
C21_Witness ==
    /\ Len(jobs) = 2
    /\ jobs[1].priority = NORMAL
    /\ jobs[2].priority = HIGH
    /\ jobs[2].status \in {COMPLETED, FAILED}
    /\ jobs[1].status = PROCESSING
    /\ jobs[1].attempts = 1
    /\ \E w \in DbWorkers : wjob[w] = 1

\* ------------------------------------------------------------------- C22
Terminal == {COMPLETED, FAILED, CANCELLED}

\* C22: with finitely many jobs, a worker loop that keeps running and
\* handlers that return, every job that was added eventually is Completed,
\* Failed or Cancelled.
C22_EveryJobTerminates ==
    \A j \in 1..MaxJobs :
        [](j \in Ids => <>(StatusOf(j) \in Terminal))

\* Both jobs are done, one after two attempts (a retry and its backoff), the
\* other at once.
C22_Witness ==
    /\ Len(jobs) = 2
    /\ \A j \in Ids : jobs[j].status \in Terminal
    /\ jobs[1].attempts = 2
    /\ jobs[1].status = FAILED
    /\ jobs[2].status = COMPLETED

\* ------------------------------------------------------------------- C23
\* sum(1 for j in self.jobs.values() if j.status == status)
CountStatus(js, status) == Cardinality({i \in 1..Len(js) : js[i].status = status})

\* get_stats (lines 328-338): the dict it returns.
GetStats(js) ==
    [total_jobs |-> Len(js),
     pending    |-> CountStatus(js, PENDING),
     processing |-> CountStatus(js, PROCESSING),
     completed  |-> CountStatus(js, COMPLETED),
     failed     |-> CountStatus(js, FAILED),
     retrying   |-> CountStatus(js, RETRYING)]

RECURSIVE SumOver(_, _)
SumOver(f, S) ==
    IF S = {} THEN 0
    ELSE LET k == CHOOSE x \in S : TRUE IN f[k] + SumOver(f, S \ {k})

\* C23: in every reachable state get_stats reports every status of the state
\* machine, each with the number of jobs now in that status, and its
\* per-status counts add up to total_jobs.
C23_StatsCoverEveryStatus ==
    LET stats == GetStats(jobs)
    IN  /\ \A status \in JobStatus :
            status \in DOMAIN stats /\ stats[status] = CountStatus(jobs, status)
        /\ SumOver(stats, DOMAIN stats \ {"total_jobs"}) = stats.total_jobs

\* ------------------------------------------------------------------- C24
\* The fields that make up the identity of a job; its id is its place in the
\* dict.
Identity(job) ==
    [type |-> job.type, payload |-> job.payload, priority |-> job.priority,
     max_retries |-> job.max_retries, created_at |-> job.created_at]

\* C24: no step removes a job or moves it to another id, and no step changes
\* the type, payload, priority, max_retries or created_at of a job.
C24_IdentityImmutable ==
    [][/\ Len(jobs') >= Len(jobs)
       /\ \A j \in Ids : Identity(jobs'[j]) = Identity(jobs[j])]_vars

\* A job created at time 0 that was executed, retried and completed at time
\* 1, with a second job added meanwhile.
C24_Witness ==
    /\ Len(jobs) = 2
    /\ jobs[1].created_at = 0
    /\ jobs[1].attempts = 2
    /\ jobs[1].status = COMPLETED
    /\ jobs[1].completed_at = 1
    /\ jobs[2].created_at = 1
\* ------------------------------------------------------------------- C25
\* The run has a file whose extension is neither .pdf nor one of the raster
\* image types.
Unsupported ==
    /\ pipe.runs > 0
    /\ Lower(pipe.suffix) \notin {".pdf", ".png", ".jpg", ".jpeg", ".tiff", ".bmp"}

UnsupportedFormat ==
    [returned |-> TRUE, success |-> FALSE, error |-> "Unsupported file type"]

\* C25: when the file extension is neither .pdf nor a supported raster image
\* type, the run fails with the unsupported-format error as soon as the file
\* is dispatched, and none of the native-text, OCR, AI and regex stages is
\* ever invoked in that run.
C25_UnsupportedFormatFails ==
    [][/\ (pipe.pc = "extract" /\ Unsupported) =>
            (pipe'.pc = "done" /\ pipe'.result = UnsupportedFormat)
       /\ Unsupported' =>
            /\ pipe'.stages = <<>>
            /\ pipe'.pc \in {"extract", "done"}
            /\ pipe'.pc = "done" => ~pipe'.result.success]_vars

C25_Witness ==
    /\ pipe.suffix = ".gif"
    /\ pipe.pc = "done"
    /\ pipe.result = UnsupportedFormat
    /\ pipe.invoice.status = "failed"

\* ------------------------------------------------------------------- C26
\* The stage has been invoked in the current run.
Invoked(stage) == \E i \in 1..Len(pipe.stages) : pipe.stages[i] = stage

\* The OCR stage is not invoked and is not about to be.
NoOcr == ~Invoked("ocr") /\ pipe.pc # "pdf_ocr"

\* C26, as stated: for a PDF whose text layer has 50 or more characters after
\* trimming, exactly 50 included, the OCR stage is never invoked.
C26_OcrSkippedFrom50 ==
    Len(Strip(pipe.native_text)) >= 50 => NoOcr

\* C26, amended: for a PDF whose text layer has more than 50 characters after
\* trimming, the OCR stage is never invoked.
C26_OcrSkippedOver50 ==
    Len(Strip(pipe.native_text)) > 50 => NoOcr

C26_Witness ==
    /\ Len(Strip(pipe.native_text)) = 51
    /\ pipe.stages = <<"native", "regex">>
    /\ pipe.pc = "done"
    /\ pipe.result.success

\* ------------------------------------------------------------------- C27
FetchErrors ==
    {"Invoice not found", "Invoice has no file_path",
     "Failed to download file from storage"}

\* The run has its file.
Fetched ==
    /\ pipe.pc \notin {"none", "idle"}
    /\ ~(pipe.pc = "done" /\ pipe.result.error \in FetchErrors)

IsText(stage) == stage \in {"native", "ocr"}
TextStages == SelectSeq(pipe.stages, IsText)

\* The stage was invoked and returned a text.
NativeReturned ==
    Invoked("native") /\ ~(pipe.pc = "done" /\ pipe.result.error = "PDF read error")
OcrReturned ==
    Invoked("ocr") /\ ~(pipe.pc = "done" /\ pipe.result.error = "OCR error")

\* The OCR stage is invoked in this run: it has been invoked or is next.
OcrRuns == Invoked("ocr") \/ pipe.pc = "pdf_ocr"

\* C27: text acquisition is a strict fallback chain.  For an image the OCR
\* stage is the one stage that runs and the native-text stage never runs.  For
\* a PDF the native-text stage runs first, and OCR runs if and only if the
\* native text's trimmed length does not exceed 50; then the OCR text, not
\* the short native text, is the output.
C27_StrictFallbackChain ==
    /\ (Fetched /\ Lower(pipe.suffix) \in ImageExtensions) =>
          /\ TextStages = IF pipe.pc \in {"extract", "image"} THEN <<>> ELSE <<"ocr">>
          /\ OcrReturned => pipe.extracted_text = pipe.ocr_text
    /\ (Fetched /\ Lower(pipe.suffix) = ".pdf") =>
          /\ TextStages = IF pipe.pc \in {"extract", "pdf"} THEN <<>>
                           ELSE IF Invoked("ocr") THEN <<"native", "ocr">>
                           ELSE <<"native">>
          /\ NativeReturned => (OcrRuns <=> Len(Strip(pipe.native_text)) <= 50)
          /\ (NativeReturned /\ ~OcrRuns) => pipe.extracted_text = pipe.native_text
          /\ OcrReturned => pipe.extracted_text = pipe.ocr_text

C27_Witness ==
    /\ Lower(pipe.suffix) = ".pdf"
    /\ pipe.native_text = X(5) \o <<NL>>
    /\ pipe.ocr_text = X(11) \o <<NL>>
    /\ pipe.extracted_text = pipe.ocr_text
    /\ pipe.stages = <<"native", "ocr", "regex">>
    /\ pipe.result.success

\* ------------------------------------------------------------------- C28
NotSpace(c) == ~IsSpace(c)
NonWhitespace(text) == Len(SelectSeq(text, NotSpace))

NoExtractableText ==
    [returned |-> TRUE, success |-> FALSE,
     error |-> "OCR failed to extract meaningful text from invoice"]

\* The native-text or OCR stage has produced the text of the run.
TextAcquired ==
    \/ pipe.pc \in {"check", "structure", "update"}
    \/ pipe.pc = "done" /\ pipe.result.success
    \/ pipe.pc = "done" /\ pipe.result.error \in
            {"OCR failed to extract meaningful text from invoice", "AttributeError"}

\* C28: if the text produced by the native-text or OCR stage does not exceed
\* 10 non-whitespace characters, the run fails with the no-extractable-text
\* error and neither the AI stage nor the regex stage is invoked.
C28_ShortTextFails ==
    (TextAcquired /\ NonWhitespace(pipe.extracted_text) <= 10) =>
        /\ pipe.pc \in {"check", "done"}
        /\ pipe.pc = "done" => pipe.result = NoExtractableText
        /\ ~Invoked("gemini")
        /\ ~Invoked("regex")

\* ------------------------------------------------------------------- C29
\* The AI stage was invoked and has ended.
AiEnded == Invoked("gemini") /\ pipe.pc \in {"update", "done"}

\* The AI stage gave a record of the schema for the text of the run.
AiReturnedRecord ==
    /\ pipe.answer.ok
    /\ pipe.structured_data = GeminiRecord("dict", pipe.extracted_text)

\* C29: whenever the AI stage fails in any way (provider error, empty or
\* malformed JSON, a fenced answer that does not parse, an answer that parses
\* but is no record, such as a JSON list or null), the pipeline has the regex
\* stage's record for the same text and the run does not fail.
C29_AiFailureFallsBack ==
    (AiEnded /\ ~AiReturnedRecord) =>
        /\ Invoked("regex")
        /\ pipe.structured_data = RegexRecord(pipe.extracted_text)
        /\ pipe.pc = "done" => pipe.result.success

\* ------------------------------------------------------------------- C30
Stages == {"native", "ocr", "gemini", "regex"}
Invocations(stage) ==
    Cardinality({i \in 1..Len(pipe.stages) : pipe.stages[i] = stage})

\* The AI stage ended with an exception: of the provider, or of the parsing
\* of its answer.
AiRaised ==
    AiEnded /\ (~pipe.answer.ok \/ ~JsonLoads(CleanResponse(pipe.answer.text)).ok)

\* C30: within one run the AI collaborator is invoked at most once and no
\* stage is invoked twice; the regex stage runs only if AI is disabled or the
\* AI stage failed, and never when the AI stage returned a record.
C30_StagesAtMostOnce ==
    /\ \A stage \in Stages : Invocations(stage) <= 1
    /\ Invoked("gemini") => pipe.gemini_enabled
    /\ Invoked("regex") => (~pipe.gemini_enabled \/ AiRaised)
    /\ (AiEnded /\ AiReturnedRecord) => ~Invoked("regex")

C30_Witness ==
    /\ pipe.runs = 2
    /\ pipe.answer.text = <<Fence, JsonWord, NL, JsonObject, NL, Fence>>
    /\ pipe.stages = <<"ocr", "gemini">>
    /\ pipe.structured_data = GeminiRecord("dict", pipe.extracted_text)
    /\ pipe.result.success

\* ------------------------------------------------------------------- C31
\* The regex stage was invoked and has ended.
RegexEnded == Invoked("regex") /\ pipe.pc \in {"update", "done"}

HasChar(text, S) == \E i \in 1..Len(text) : text[i] \in S

\* C31: the regex stage never fails.  For every text, one where no pattern
\* matches and one whose matched amount cannot be converted included, it
\* returns a record (the run goes on and succeeds) in which the fields
\* without a match, and the amount that cannot be converted, are null.
C31_RegexNeverFails ==
    RegexEnded =>
        /\ pipe.pc = "done" => pipe.result.success
        /\ pipe.structured_data.source = "regex"
        /\ pipe.structured_data.type = "dict"
        /\ pipe.structured_data.currency = "USD"
        /\ ~pipe.structured_data.vendor_name.present
        /\ ~HasChar(pipe.extracted_text, {"v", "V"}) =>
                ~pipe.structured_data.invoice_number.present
        /\ ~HasChar(pipe.extracted_text, Digits) =>
                /\ ~pipe.structured_data.invoice_date.present
                /\ ~pipe.structured_data.total_amount.present

C31_Witness ==
    /\ pipe.extracted_text = CommasText
    /\ pipe.stages = <<"ocr", "regex">>
    /\ pipe.structured_data = RegexRecord(CommasText)
    /\ ~pipe.structured_data.total_amount.present
    /\ pipe.pc = "done"
    /\ pipe.result.success

\* ------------------------------------------------------------------- C32
\* The run has a PDF whose text layer is empty, and AI is disabled.
EmptyPdf ==
    /\ Fetched
    /\ Lower(pipe.suffix) = ".pdf"
    /\ ~pipe.gemini_enabled
    /\ NativeReturned
    /\ pipe.native_text = <<>>

IsPrefix(s, t) == Len(s) <= Len(t) /\ s = SubSeq(t, 1, Len(s))

\* C32: for a PDF whose text layer is empty, with AI disabled, the stages
\* that run are native text, then OCR, then regex, and the record returned is
\* the regex stage's output on the OCR text, with currency USD; for the OCR
\* text "Invoice #1001 Total: $250.00" the invoice number is "1001" and the
\* total amount 250.00.
C32_EmptyPdfUsesRegex ==
    EmptyPdf =>
        /\ IsPrefix(pipe.stages, <<"native", "ocr", "regex">>)
        /\ (OcrReturned /\ Meaningful(pipe.ocr_text) /\ pipe.pc = "done") =>
                /\ pipe.stages = <<"native", "ocr", "regex">>
                /\ pipe.result.success
                /\ pipe.structured_data = RegexRecord(pipe.ocr_text)
                /\ pipe.structured_data.source = "regex"
                /\ pipe.structured_data.currency = "USD"
                /\ pipe.invoice.data = pipe.structured_data
                /\ pipe.ocr_text = InvoiceText \o <<NL>> =>
                        /\ pipe.structured_data.invoice_number =
                                [present |-> TRUE, value |-> <<"1", "0", "0", "1">>]
                        /\ pipe.structured_data.total_amount =
                                [present |-> TRUE,
                                 value |-> [whole |-> 250, decimals |-> <<>>]]
                        /\ ~pipe.structured_data.invoice_date.present
                        /\ ~pipe.structured_data.vendor_name.present

C32_Witness ==
    /\ EmptyPdf
    /\ pipe.ocr_text = InvoiceText \o <<NL>>
    /\ pipe.stages = <<"native", "ocr", "regex">>
    /\ pipe.structured_data.invoice_number.value = <<"1", "0", "0", "1">>
    /\ pipe.structured_data.total_amount.value.whole = 250
    /\ pipe.pc = "done"
    /\ pipe.result.success

RowBefore == IF pipe.given.fetch = "not_found" THEN NoInvoice ELSE NewInvoice

\* C35: a failed run (unsupported format, no extractable text, download or
\* stage error) writes nothing: the invoice record is after the run what it
\* was before it.
C35_FailedRunWritesNothing ==
    (pipe.pc = "done" /\ pipe.result.returned /\ ~pipe.result.success) =>
        pipe.invoice = RowBefore

\* ------------------------------------------------------------------- C34
\* C34: for an invoice-processing job the handler is the extraction pipeline:
\* the job becomes Completed only if a pipeline run took place in that
\* attempt and succeeded (a failed run makes it Retrying or Failed).
C34_HandlerIsPipeline ==
    [][\A j \in Ids :
         (jobs[j].type = "process_invoice" /\ jobs[j].status = PROCESSING
            /\ jobs'[j].status = COMPLETED) =>
                (pipe.runs > 0 /\ pipe.pc = "done" /\ pipe.result.success)]_vars

\* ------------------------------------------------------------------- C39
\* C39: tokens are consumed at most once per process_invoice job, whatever
\* the number of attempts, and the invoice is marked 'completed' only in an
\* attempt whose consume_tokens call went through.
C39_TokensConsumedOnce ==
    \A j \in Ids :
        /\ ledger[j].consumed <= 1
        /\ ledger[j].completed <= ledger[j].consumed
        /\ ledger[j].outcome \in {"no_admin", "rpc_raised"} =>
                jobs[j].status # COMPLETED

\* ------------------------------------------------------------------- C36
\* C36: a job that is back to Pending after a backoff keeps its created_at
\* and its place: no job of the same priority submitted after it, one
\* submitted during its backoff included, is selected while it is Pending.
C36_RetriedKeepsPlace ==
    [][\A a, b \in Ids :
         /\ jobs'[a].created_at = jobs[a].created_at
         /\ (a < b /\ jobs[a].attempts >= 1
                /\ jobs[a].status = PENDING /\ jobs[b].status = PENDING
                /\ jobs[a].priority = jobs[b].priority) =>
                    /\ jobs[a].created_at <= jobs[b].created_at
                    /\ jobs'[b].status # PROCESSING]_vars

\* The first job failed once, the second was submitted during its backoff
\* (after its first attempt began and less than the backoff later; no add_job
\* runs while a handler does), and the first has been selected again while
\* the second waits.
C36_Witness ==
    /\ Len(jobs) = 2
    /\ jobs[1].priority = jobs[2].priority
    /\ jobs[1].started_at < jobs[2].created_at
    /\ jobs[1].attempts = 2
    /\ jobs[1].status = PROCESSING
    /\ jobs[2].attempts = 0
    /\ jobs[2].status = PENDING
    /\ jobs[2].created_at < jobs[1].started_at + Backoff(1)

\* ------------------------------------------------------------------- C37
SomeRetrying == \E r \in Ids : jobs[r].status = RETRYING

\* C37: a worker that executed a failing job stays inside process_job for the
\* whole backoff.  With a single worker, a Retrying job is the job the worker
\* sleeps on, and while any job is Retrying no job moves from Pending to
\* Processing, a Critical one included.
C37_WorkerWaitsOutBackoff ==
    [][/\ \A r \in Ids : jobs'[r].status = RETRYING =>
                \A w \in DbWorkers : pc'[w] = "backoff" /\ wjob'[w] = r
       /\ SomeRetrying =>
                \A j \in Ids : ~(jobs[j].status = PENDING /\ jobs'[j].status = PROCESSING)]_vars

\* A Normal job is Retrying while a Critical job, submitted during the
\* backoff, is Pending.
C37_Witness ==
    /\ Len(jobs) = 2
    /\ jobs[1].priority = NORMAL
    /\ jobs[1].status = RETRYING
    /\ jobs[2].priority = CRITICAL
    /\ jobs[2].status = PENDING
    /\ pc["w1"] = "backoff"

\* ------------------------------------------------------------------- C38
StopCalled == ret.op = "stop_worker"

\* C38: once stop_worker has been called the worker loop eventually exits,
\* with handlers that return and a worker that keeps taking its steps, also
\* when the call comes before the first step of start_worker.
C38_StoppedWorkerExits ==
    \A w \in DbWorkers : StopCalled ~> pc[w] = "exited"

====
